---- MODULE Spec2Model ----
(***************************************************************************)
(* Verification model of the shopping-agent orchestration layer:          *)
(*   - SessionManager / Session   (src/agents/src/orchestrator/session.py)*)
(*   - POST /api/v1/chat handler  (src/agents/src/server.py)              *)
(*   - payment_node / confirm_payment_node                                *)
(*                                (src/agents/src/execution/payment_node.py)*)
(*   - verifier_node              (src/agents/src/verifier/node.py)       *)
(*   - plan_node                  (src/agents/src/execution/plan_node.py) *)
(*   - _assess_risk_level         (src/agents/src/compliance/node.py)     *)
(*   - candidate_node             (src/agents/src/candidate/node.py)      *)
(*   - intent_node                (src/agents/src/intent/node.py)         *)
(*   - stream_guided_chat / extract_mission_from_conversation             *)
(*                                (src/agents/src/guided_chat.py)         *)
(* Each subsystem has its own specification over the shared variables;    *)
(* the variables a specification does not use stay at their initial value.*)
(***************************************************************************)
EXTENDS Integers, Sequences, FiniteSets, TLC

VARIABLES
    now,            \* wall clock, datetime.now(UTC), in minutes
    sessions,       \* SessionManager._sessions : dict session_id -> Session
    cleanup_task,   \* SessionManager._cleanup_task: "none" | "running" | "cancelled"
    orphan_loops,   \* sweep loops whose task handle was overwritten by a later start()
    turns,          \* number of conversation turns handled so far
    ret,            \* what the last operation returned / raised
    subject,        \* serialization: the Session being persisted
    data,           \* serialization: the dict to_dict produced
    restored,       \* serialization: the Session from_dict built
    pstate,         \* payment flow: the Conversation State the driver holds
    handed,         \* payment flow: the state object handed to the last stage
    intents,        \* payment flow: payment intents created so far
    sstate,         \* agent stages: the Conversation State the driver holds
    given,          \* agent stages: the state object handed to the last stage
    world           \* agent stages: what the tools and the LLM answer in this run

storeVars == <<now, sessions, cleanup_task, orphan_loops, turns>>
serialVars == <<subject, data, restored>>
payVars == <<pstate, handed, intents>>
stageVars == <<sstate, given, world>>
vars == <<storeVars, ret, serialVars, payVars, stageVars>>

(***************************************************************************)
(* Bounds of the model                                                     *)
(***************************************************************************)
MaxTime == 31           \* the clock stops advancing here (minutes)
MaxTurns == 3           \* conversation turns per run

SessionIds == {"sess_a", "sess_b"}   \* ids _generate_session_id can produce
NoId == "no_id"                      \* an omitted / absent session id
Users == {"user_001", "user_002"}
None == "None"

(***************************************************************************)
(* Settings (config.py)                                                    *)
(***************************************************************************)
token_budget_total == 50000

\* the attributes class Settings declares; any other attribute access on
\* the pydantic model raises AttributeError
SettingsFields ==
    {"app_name", "app_env", "debug", "database_url", "tool_gateway_url",
     "openai_api_key", "openai_base_url", "openai_model_planner",
     "openai_model_verifier", "token_budget_total",
     "otel_exporter_otlp_endpoint", "otel_service_name"}

AttributeError == "AttributeError"

\* getattr(settings, name) for the integer-valued settings
SettingsGet(name) ==
    IF name \in SettingsFields
        THEN [exc |-> None,
              value |-> IF name = "token_budget_total" THEN token_budget_total ELSE 0]
        ELSE [exc |-> AttributeError, value |-> 0]

(***************************************************************************)
(* Session                                                                 *)
(***************************************************************************)
DefaultTimeoutMinutes == 30
SweepIntervalMinutes == 5

\* the absent AgentState (Session.state = None)
NoState == [present |-> FALSE, mission |-> FALSE, token_used |-> 0,
            current_step |-> None, error |-> FALSE]

\* Session.__init__
NewSession(session_id, user_id, token_budget, t) ==
    [session_id      |-> session_id,
     user_id         |-> user_id,
     token_budget    |-> token_budget,
     token_used      |-> 0,
     timeout_minutes |-> DefaultTimeoutMinutes,
     created_at      |-> t,
     last_activity   |-> t,
     state           |-> NoState,
     message_history |-> << >>,
     graph           |-> None]

\* Session.is_expired at clock value t
is_expired(s, t) == t - s.last_activity > s.timeout_minutes

\* Session.token_remaining
Max(a, b) == IF a >= b THEN a ELSE b
token_remaining(s) == Max(0, s.token_budget - s.token_used)

\* a gate that wants strictly more than the estimate
can_afford_tokens_strict(s, estimated) == token_remaining(s) > estimated

\* Session.can_afford_tokens
can_afford_tokens(s, estimated) == token_remaining(s) >= estimated

\* Session.touch
touch(s, t) == [s EXCEPT !.last_activity = t]

\* dict helpers
DictPop(d, k) == [x \in (DOMAIN d) \ {k} |-> d[x]]
DictSet(d, k, v) == [x \in (DOMAIN d) \cup {k} |-> IF x = k THEN v ELSE d[x]]

\* the record of a call: op and arg name it; session / list / exc are what it
\* returned (exc: the error_code of a failure envelope or the exception's
\* name); raised: the exception left the call; msg: the message of a turn;
\* admitted: the turn passed the budget gate; invoked: the graph was run
NoRet == [op |-> "init", arg |-> None, flag |-> FALSE, session |-> NoId,
          list |-> {}, exc |-> None, raised |-> FALSE, msg |-> << >>,
          admitted |-> FALSE, invoked |-> FALSE]

(***************************************************************************)
(* SessionManager                                                          *)
(***************************************************************************)
\* the state of a freshly constructed SessionManager
ManagerInit ==
    /\ now = 0
    /\ sessions = << >>
    /\ cleanup_task = "none"
    /\ orphan_loops = 0
    /\ turns = 0

\* nothing is being serialized
SerialIdle ==
    /\ subject = None
    /\ data = None
    /\ restored = None

\* no payment flow is under way
PayIdle ==
    /\ pstate = None
    /\ handed = None
    /\ intents = 0

\* no agent stage is under way
StageIdle ==
    /\ sstate = None
    /\ given = None
    /\ world = None

StoreInit ==
    /\ ManagerInit
    /\ ret = NoRet
    /\ SerialIdle
    /\ PayIdle
    /\ StageIdle

\* time passes: by exactly the inactivity timeout, or by one minute more
TickSteps == {DefaultTimeoutMinutes, DefaultTimeoutMinutes + 1}
Tick ==
    /\ \E d \in TickSteps :
        /\ now + d <= MaxTime
        /\ now' = now + d
    /\ ret' = [NoRet EXCEPT !.op = "tick"]
    /\ UNCHANGED <<sessions, cleanup_task, orphan_loops, turns, serialVars, payVars, stageVars>>

\* SessionManager.start: create_task(_cleanup_loop()); a loop started
\* earlier and not cancelled keeps running without a handle
Start ==
    /\ cleanup_task' = "running"
    /\ orphan_loops' = IF cleanup_task = "running" THEN 1 ELSE orphan_loops
    /\ ret' = [NoRet EXCEPT !.op = "start"]
    /\ UNCHANGED <<now, sessions, turns, serialVars, payVars, stageVars>>

\* SessionManager.stop: cancels the task held in _cleanup_task, if any
Stop ==
    /\ cleanup_task' = IF cleanup_task = "none" THEN "none" ELSE "cancelled"
    /\ ret' = [NoRet EXCEPT !.op = "stop"]
    /\ UNCHANGED <<now, sessions, orphan_loops, turns, serialVars, payVars, stageVars>>

\* SessionManager._generate_session_id: "sess_" + truncated sha256 of
\* user_id:timestamp -- some id of the id space
GeneratedIds(user_id) == SessionIds

\* SessionManager.create_session(user_id, session_id, token_budget) resolved
\* to the id sid; token_budget = 0 stands for an omitted (or zero) argument
CreateSessionResult(store, user_id, sid, token_budget, t) ==
    IF sid \in DOMAIN store
    THEN [store |-> store, session |-> sid, exc |-> None]
    ELSE LET budget == IF token_budget # 0 THEN [exc |-> None, value |-> token_budget]
                       ELSE SettingsGet("max_tokens_per_session")
         IN IF budget.exc # None
            THEN [store |-> store, session |-> NoId, exc |-> budget.exc]
            ELSE [store |-> DictSet(store, sid,
                                    NewSession(sid, user_id, budget.value, t)),
                  session |-> sid, exc |-> None]

BudgetArgs == {0, token_budget_total}

CreateSession(user_id, session_id, token_budget) ==
    \E sid \in (IF session_id = NoId THEN GeneratedIds(user_id) ELSE {session_id}) :
        LET r == CreateSessionResult(sessions, user_id, sid, token_budget, now)
        IN /\ sessions' = r.store
           /\ ret' = [NoRet EXCEPT !.op = "create_session", !.arg = sid,
                                   !.flag = (token_budget = 0),
                                   !.session = r.session, !.exc = r.exc,
                                   !.raised = (r.exc # None)]

create_session ==
    /\ \E user_id \in Users, session_id \in {NoId} \cup SessionIds,
          token_budget \in BudgetArgs :
        CreateSession(user_id, session_id, token_budget)
    /\ UNCHANGED <<now, cleanup_task, orphan_loops, turns, serialVars, payVars, stageVars>>

\* a lookup that forgets the expiry check
GetSessionResult_noexpiry(store, session_id, t) ==
    [store |-> store,
     session |-> IF session_id \in DOMAIN store THEN session_id ELSE NoId]

\* SessionManager.get_session
GetSessionResult(store, session_id, t) ==
    IF session_id \in DOMAIN store /\ is_expired(store[session_id], t)
    THEN [store |-> DictPop(store, session_id), session |-> NoId]
    ELSE [store |-> store,
          session |-> IF session_id \in DOMAIN store THEN session_id ELSE NoId]

get_session ==
    /\ \E session_id \in SessionIds :
        LET r == GetSessionResult(sessions, session_id, now)
        IN /\ sessions' = r.store
           /\ ret' = [NoRet EXCEPT !.op = "get_session", !.arg = session_id,
                                   !.flag = (session_id \in DOMAIN sessions),
                                   !.session = r.session]
    /\ UNCHANGED <<now, cleanup_task, orphan_loops, turns, serialVars, payVars, stageVars>>

\* SessionManager.delete_session
delete_session ==
    /\ \E session_id \in SessionIds :
        /\ sessions' = IF session_id \in DOMAIN sessions
                       THEN DictPop(sessions, session_id) ELSE sessions
        /\ ret' = [NoRet EXCEPT !.op = "delete_session", !.arg = session_id,
                                !.flag = session_id \in DOMAIN sessions]
    /\ UNCHANGED <<now, cleanup_task, orphan_loops, turns, serialVars, payVars, stageVars>>

\* SessionManager.list_sessions(user_id); user_id = None lists all users
ListSessionsResult(store, user_id, t) ==
    LET all == DOMAIN store
        mine == IF user_id # None
                THEN {s \in all : store[s].user_id = user_id} ELSE all
    IN {s \in mine : ~is_expired(store[s], t)}

list_sessions ==
    /\ \E user_id \in Users \cup {None} :
        ret' = [NoRet EXCEPT !.op = "list_sessions", !.arg = user_id,
                             !.list = ListSessionsResult(sessions, user_id, now)]
    /\ UNCHANGED <<now, sessions, cleanup_task, orphan_loops, turns, serialVars, payVars, stageVars>>

\* a sweep that already evicts at exactly timeout_minutes of inactivity
CleanupExpired_offbyone(store, t) ==
    LET expired == {sid \in DOMAIN store :
                        t - store[sid].last_activity >= store[sid].timeout_minutes}
    IN [sid \in (DOMAIN store) \ expired |-> store[sid]]

\* SessionManager._cleanup_expired_sessions
CleanupExpired(store, t) ==
    LET expired == {sid \in DOMAIN store : is_expired(store[sid], t)}
    IN [sid \in (DOMAIN store) \ expired |-> store[sid]]

\* one iteration of SessionManager._cleanup_loop: the sleep returns and the
\* sweep runs (a loop is live while its task is not cancelled)
LoopLive == cleanup_task = "running" \/ orphan_loops > 0

cleanup_loop ==
    /\ LoopLive
    /\ sessions' = CleanupExpired(sessions, now)
    /\ ret' = [NoRet EXCEPT !.op = "sweep",
                            !.flag = (DOMAIN CleanupExpired(sessions, now)
                                        # DOMAIN sessions)]
    /\ UNCHANGED <<now, cleanup_task, orphan_loops, turns, serialVars, payVars, stageVars>>

\* a turn on a session the caller holds refreshes its activity stamp
\* (Session.touch, called first thing by Session.process_message and by the
\* chat handler right after its get_session lookup)
touch_session ==
    /\ \E session_id \in DOMAIN sessions :
        /\ sessions' = [sessions EXCEPT ![session_id] = touch(@, now)]
        /\ ret' = [NoRet EXCEPT !.op = "touch", !.arg = session_id]
    /\ UNCHANGED <<now, cleanup_task, orphan_loops, turns, serialVars, payVars, stageVars>>

StoreNext ==
    \/ Tick
    \/ Start
    \/ Stop
    \/ create_session
    \/ get_session
    \/ delete_session
    \/ list_sessions
    \/ cleanup_loop
    \/ touch_session

StoreSpec == StoreInit /\ [][StoreNext]_vars

\* the sweep loop, once started and until cancelled, keeps waking up
StoreFairSpec == StoreSpec /\ WF_vars(cleanup_loop)

(***************************************************************************)
(* Conversation turns: Session.process_message and POST /api/v1/chat      *)
(***************************************************************************)
\* the user and the explicitly named session of the conversations
TurnUsers == {"user_001"}
TurnIds == {"sess_a"}

\* user messages, as character sequences: two words, and a blank message
Messages == { <<"a", " ", "b">>, <<" ">> }

\* len(message.split()): the maximal runs of non-whitespace characters
WordCount(message) ==
    Cardinality({i \in 1..Len(message) :
                    /\ message[i] # " "
                    /\ (i = 1 \/ message[i - 1] = " ")})

IntentTokenEstimate == 500
TurnBaseEstimate == 500

\* the ways intent_node can go on a state without a Mission: the LLM parse
\* succeeds; the deterministic mock parser runs (no API key, or the LLM
\* parse returned nothing); clarification is requested; an error response
IntentPaths == {"llm", "mock", "clarify", "error"}

\* intent_node(state) going down path
intent_node(state, path) ==
    IF state.mission
    THEN [state EXCEPT !.current_step = "intent_complete"]
    ELSE CASE path = "llm" ->
                [state EXCEPT !.mission = TRUE,
                              !.current_step = "intent_complete",
                              !.token_used = state.token_used + IntentTokenEstimate,
                              !.error = FALSE]
           [] path = "mock" ->
                [state EXCEPT !.mission = TRUE,
                              !.current_step = "intent_complete",
                              !.token_used = 0,
                              !.error = FALSE]
           [] path = "clarify" ->
                [state EXCEPT !.current_step = "awaiting_clarification",
                              !.error = FALSE]
           [] OTHER ->
                [state EXCEPT !.current_step = "intent", !.error = TRUE]

\* graph.ainvoke(input_state): the graph enters at the Intent stage; the
\* stages after it carry token_used through unchanged; the run may raise
GraphOutcomes == IntentPaths \cup {"raise"}

ainvoke(input_state, outcome) ==
    IF outcome = "raise"
    THEN [raised |-> TRUE, result |-> input_state]
    ELSE [raised |-> FALSE, result |-> intent_node(input_state, outcome)]

\* get_agent_graph(): builds the graph, or fails to
BuildOutcomes == {"built", "raise"}

\* the fresh initial Conversation State both entry points construct
InitialState(token_used) ==
    [present |-> TRUE, mission |-> FALSE, token_used |-> token_used,
     current_step |-> "start", error |-> FALSE]

\* Session._build_input_state
build_input_state(s) ==
    IF s.state.present THEN s.state ELSE InitialState(s.token_used)

\* Session._extract_response: the type of the response summary
extract_response(state) ==
    IF state.error THEN "error"
    ELSE IF state.current_step = "intent_complete" THEN "mission_parsed"
    ELSE "processing"

\* Session.process_message(message) at clock value t; build and outcome say
\* how get_agent_graph and the graph run turn out
ProcessMessage(s, message, t, build, outcome) ==
    LET touched == touch(s, t)
        estimated_tokens == WordCount(message) * 2 + TurnBaseEstimate
    IN IF ~can_afford_tokens(touched, estimated_tokens)
       THEN [session |-> touched, success |-> FALSE,
             exc |-> "TOKEN_BUDGET_EXCEEDED", raised |-> FALSE,
             admitted |-> FALSE, invoked |-> FALSE]
       ELSE IF touched.graph = None /\ build = "raise"
       THEN [session |-> touched, success |-> FALSE,
             exc |-> "Exception", raised |-> TRUE,
             admitted |-> TRUE, invoked |-> FALSE]
       ELSE
         LET withGraph == [touched EXCEPT !.graph = "graph"]
             input_state == build_input_state(withGraph)
             run == ainvoke(input_state, outcome)
         IN IF run.raised
            THEN [session |-> withGraph, success |-> FALSE,
                  exc |-> "INTERNAL_ERROR", raised |-> FALSE,
                  admitted |-> TRUE, invoked |-> TRUE]
            ELSE [session |->
                    [withGraph EXCEPT
                       !.state = run.result,
                       !.token_used = @ + run.result.token_used
                                        - input_state.token_used,
                       !.message_history =
                           @ \o << [role |-> "user", content |-> message],
                                   [role |-> "assistant",
                                    content |-> extract_response(run.result)] >>],
                  success |-> TRUE, exc |-> None, raised |-> FALSE,
                  admitted |-> TRUE, invoked |-> TRUE]

process_message ==
    /\ turns < MaxTurns
    /\ \E sid \in DOMAIN sessions, message \in Messages,
          build \in BuildOutcomes, outcome \in GraphOutcomes :
        LET r == ProcessMessage(sessions[sid], message, now, build, outcome)
        IN /\ sessions' = [sessions EXCEPT ![sid] = r.session]
           /\ ret' = [NoRet EXCEPT !.op = "process_message", !.arg = sid,
                                   !.flag = r.success, !.session = sid,
                                   !.exc = r.exc, !.raised = r.raised,
                                   !.msg = message, !.admitted = r.admitted,
                                   !.invoked = r.invoked]
    /\ turns' = turns + 1
    /\ UNCHANGED <<now, cleanup_task, orphan_loops, serialVars, payVars, stageVars>>

\* POST /api/v1/chat with request (message, session_id, user_id); sid is the
\* id a new session gets when the request names none
Chat(store, message, session_id, user_id, sid, t, outcome) ==
    LET looked == IF session_id # NoId
                  THEN LET g == GetSessionResult(store, session_id, t)
                       IN [store |-> g.store, session |-> g.session, exc |-> None]
                  ELSE CreateSessionResult(store, user_id, sid,
                                           SettingsGet("token_budget_total").value, t)
    IN IF looked.session = NoId
       THEN [store |-> looked.store, session |-> NoId, exc |-> "HTTP_404",
             invoked |-> FALSE]
       ELSE
         LET id == looked.session
             touched == touch(looked.store[id], t)
             initial_state == InitialState(touched.token_used)
             run == ainvoke(initial_state, outcome)
         IN IF run.raised
            THEN [store |-> [looked.store EXCEPT ![id] = touched],
                  session |-> id, exc |-> "HTTP_500", invoked |-> TRUE]
            ELSE [store |-> [looked.store EXCEPT ![id] =
                                [touched EXCEPT !.token_used =
                                    @ + (run.result.token_used - touched.token_used)]],
                  session |-> id, exc |-> None, invoked |-> TRUE]

chat ==
    /\ turns < MaxTurns
    /\ \E message \in Messages, session_id \in TurnIds \cup {NoId},
          user_id \in TurnUsers, outcome \in GraphOutcomes :
        \E sid \in (IF session_id = NoId THEN GeneratedIds(user_id) \cap TurnIds
                    ELSE {session_id}) :
            LET r == Chat(sessions, message, session_id, user_id, sid, now, outcome)
            IN /\ sessions' = r.store
               /\ ret' = [NoRet EXCEPT !.op = "chat", !.arg = sid,
                                       !.session = r.session, !.exc = r.exc,
                                       !.raised = (r.exc # None),
                                       !.msg = message, !.invoked = r.invoked]
    /\ turns' = turns + 1
    /\ UNCHANGED <<now, cleanup_task, orphan_loops, serialVars, payVars, stageVars>>

\* a session opened for a conversation with an explicit budget
TurnBudgets == {1000}
open_session ==
    /\ \E user_id \in TurnUsers, session_id \in TurnIds, token_budget \in TurnBudgets :
        CreateSession(user_id, session_id, token_budget)
    /\ UNCHANGED <<now, cleanup_task, orphan_loops, turns, serialVars, payVars, stageVars>>

TurnNext ==
    \/ Tick
    \/ open_session
    \/ process_message
    \/ chat

TurnSpec == StoreInit /\ [][TurnNext]_vars

(***************************************************************************)
(* Session persistence: Session.to_dict / Session.from_dict                *)
(***************************************************************************)
MaxMicro == 1           \* microsecond values of the time stamps: 0..MaxMicro

\* an aware datetime in UTC: whole minutes and the microsecond field
DateTimes == [minute : {0, DefaultTimeoutMinutes + 1}, microsecond : 0..MaxMicro,
              tzinfo : {"UTC"}]

DateTimeLeq(a, b) ==
    \/ a.minute < b.minute
    \/ a.minute = b.minute /\ a.microsecond <= b.microsecond

\* isoformat with timespec='seconds': the fraction is never printed
isoformat_seconds(dt) ==
    [whole |-> dt.minute, has_fraction |-> FALSE, fraction |-> 0,
     offset |-> "+00:00"]

\* datetime.isoformat(): 'YYYY-MM-DDTHH:MM:SS[.ffffff]+00:00'; the fraction
\* is printed only when microsecond is not 0
isoformat(dt) ==
    [whole |-> dt.minute,
     has_fraction |-> dt.microsecond # 0,
     fraction |-> IF dt.microsecond # 0 THEN dt.microsecond ELSE 0,
     offset |-> IF dt.tzinfo = "UTC" THEN "+00:00" ELSE ""]

\* datetime.fromisoformat(text)
fromisoformat(text) ==
    [minute |-> text.whole,
     microsecond |-> IF text.has_fraction THEN text.fraction ELSE 0,
     tzinfo |-> IF text.offset = "+00:00" THEN "UTC" ELSE "naive"]

\* message classes the state's message list can hold
MessageTypes == {"HumanMessage", "AIMessage", "SystemMessage"}

\* _serialize_state: messages degrade to {type, content} pairs
serialize_state(state) ==
    [present |-> TRUE,
     messages |-> [i \in 1..Len(state.messages) |->
                      [type |-> state.messages[i].class,
                       content |-> state.messages[i].content]]]

\* _deserialize_state: only HumanMessage and AIMessage entries are rebuilt
deserialize_state(d) ==
    LET known(m) == m.type \in {"HumanMessage", "AIMessage"}
        kept == SelectSeq(d.messages, known)
    IN [present |-> TRUE,
        messages |-> [i \in 1..Len(kept) |->
                        [class |-> kept[i].type, content |-> kept[i].content]]]

AbsentState == [present |-> FALSE, messages |-> << >>]

\* Session.to_dict
to_dict(s) ==
    [session_id      |-> s.session_id,
     user_id         |-> s.user_id,
     token_budget    |-> s.token_budget,
     token_used      |-> s.token_used,
     timeout_minutes |-> s.timeout_minutes,
     created_at      |-> isoformat(s.created_at),
     last_activity   |-> isoformat(s.last_activity),
     message_history |-> s.message_history,
     state           |-> IF s.state.present THEN serialize_state(s.state)
                         ELSE AbsentState]

\* Session.from_dict, run when the clock reads t
from_dict(d, t) ==
    LET session == [session_id      |-> d.session_id,
                    user_id         |-> d.user_id,
                    token_budget    |-> d.token_budget,
                    token_used      |-> 0,
                    timeout_minutes |-> d.timeout_minutes,
                    created_at      |-> t,
                    last_activity   |-> t,
                    state           |-> AbsentState,
                    message_history |-> << >>,
                    tool_call_history |-> << >>,
                    graph           |-> None]
    IN [session EXCEPT
            !.token_used = d.token_used,
            !.created_at = fromisoformat(d.created_at),
            !.last_activity = fromisoformat(d.last_activity),
            !.message_history = d.message_history,
            !.state = IF d.state.present THEN deserialize_state(d.state)
                      ELSE AbsentState]

\* the sessions that get persisted
SerialHistories ==
    { << >>,
      << [role |-> "user", content |-> <<"a", " ", "b">>],
         [role |-> "assistant", content |-> "mission_parsed"] >> }

SerialStates ==
    { AbsentState,
      [present |-> TRUE,
       messages |-> << [class |-> "HumanMessage", content |-> "hi"] >>],
      [present |-> TRUE,
       messages |-> << [class |-> "HumanMessage", content |-> "hi"],
                       [class |-> "SystemMessage", content |-> "sys"] >>] }

SerialSessions ==
    { s \in [session_id : SessionIds, user_id : Users,
             token_budget : {1000, token_budget_total},
             token_used : {0, 800},
             timeout_minutes : {DefaultTimeoutMinutes},
             created_at : DateTimes, last_activity : DateTimes,
             state : SerialStates, message_history : SerialHistories,
             tool_call_history : {<< >>}, graph : {None}] :
        DateTimeLeq(s.created_at, s.last_activity) }

\* the clock reading of the process that restores sessions
RestoreTime == [minute |-> MaxTime, microsecond |-> 0, tzinfo |-> "UTC"]

SerialInit ==
    /\ ManagerInit
    /\ PayIdle
    /\ StageIdle
    /\ ret = NoRet
    /\ subject \in SerialSessions
    /\ data = None
    /\ restored = None

serialize ==
    /\ data' = to_dict(subject)
    /\ ret' = [NoRet EXCEPT !.op = "to_dict"]
    /\ UNCHANGED <<storeVars, payVars, stageVars, subject, restored>>

deserialize ==
    /\ ret.op \in {"to_dict", "from_dict"}
    /\ restored' = from_dict(data, RestoreTime)
    /\ ret' = [NoRet EXCEPT !.op = "from_dict"]
    /\ UNCHANGED <<storeVars, payVars, stageVars, subject, data>>

SerialNext ==
    \/ serialize
    \/ deserialize

SerialSpec == SerialInit /\ [][SerialNext]_vars

(***************************************************************************)
(* Payment flow: payment_node / confirm_payment_node                       *)
(***************************************************************************)
MaxToolCalls == 2       \* tool call records a run may collect

NoIntent == 0           \* payment_intent_id is None / not in the state
NoOrder == 0            \* order_id is None / not in the state

\* Python truthiness of an optional string / an optional id
TruthyStr(x) == x # None /\ x # ""
TruthyId(n) == n # 0

\* confirmation items named by the execution result, as character sequences
ItemReturnPolicy == <<"R", " ", "P">>
ItemTax == <<"t", "a", "x">>

\* str.lower() on the characters in use
LowerChar(c) ==
    CASE c = "R" -> "r"
      [] c = "P" -> "p"
      [] OTHER -> c

\* item.lower().replace(" ", "_")
ItemKey(item) ==
    [i \in 1..Len(item) |-> IF LowerChar(item[i]) = " " THEN "_"
                            ELSE LowerChar(item[i])]

\* a dict-or-None value of the state: the key may be absent, hold None, or
\* hold a dict, given by the keys that map to a truthy value
AbsentDict == [kind |-> "absent", keys |-> {}]
NoneDict == [kind |-> "none", keys |-> {}]
Dict(keys) == [kind |-> "dict", keys |-> keys]

\* the "tool_calls" list of the state: the key may be absent
AbsentList == [kind |-> "absent", items |-> << >>]
List(items) == [kind |-> "list", items |-> items]

\* no payment_ready bundle in the state
NoBundle == [ready |-> FALSE, payment_intent |-> NoIntent, amount |-> None]

\* the answers of checkout.get_draft_order_summary: the call raises, the
\* envelope is not ok, or it is ok and carries the draft order's status
GatewayResponses == {"raise", "not_ok", "pending", "expired", "paid"}

\* a status that forgets that a paid order must not be paid again
DraftStatusError_nopaid(draft_status) ==
    IF draft_status = "expired" THEN "ORDER_EXPIRED" ELSE None

\* payment_node, step 2: the error code a draft order status leads to
DraftStatusError(draft_status) ==
    CASE draft_status = "expired" -> "ORDER_EXPIRED"
      [] draft_status = "paid" -> "ALREADY_PAID"
      [] OTHER -> None

\* payment_node, step 3: the confirmation items without a truthy entry
MissingConfirmations(confirmation_items, user_confirmation) ==
    LET missing(item) == ItemKey(item) \notin user_confirmation.keys
    IN SelectSeq(confirmation_items, missing)

\* the `except Exception` branch of both stages
InternalError(state, step) ==
    [state EXCEPT !.error = "exception", !.error_code = "INTERNAL_ERROR",
                  !.current_step = step]

\* payment_node(state) when the gateway answers gw and a newly generated
\* intent gets the id fresh; the amount is a number whichever shape
\* payable_amount has.
\* out: the returned state; input: the state object handed in, as it is
\* after the call; called: the gateway was called; created: an intent was made
PaymentNode(state, gw, fresh) ==
    IF ~TruthyStr(state.draft_order_id)
    THEN [out |-> [state EXCEPT !.error = "No draft order found",
                                !.error_code = "INVALID_ARGUMENT",
                                !.current_step = "payment"],
          input |-> state, called |-> FALSE, created |-> FALSE]
    ELSE IF gw = "raise"
    THEN [out |-> InternalError(state, "payment"),
          input |-> state, called |-> TRUE, created |-> FALSE]
    ELSE IF gw = "not_ok"
    THEN [out |-> [state EXCEPT !.error = "Draft order not found",
                                !.error_code = "NOT_FOUND",
                                !.current_step = "payment"],
          input |-> state, called |-> TRUE, created |-> FALSE]
    ELSE
      LET \* tool_calls = state.get("tool_calls", []); tool_calls.append(..)
          \* appends to the list inside the handed state when there is one
          tool_calls == Append(state.tool_calls.items,
                               "checkout.get_draft_order_summary")
          shared == IF state.tool_calls.kind = "list"
                    THEN [state EXCEPT !.tool_calls = List(tool_calls)]
                    ELSE state
          status_error == DraftStatusError(gw)
      IN IF status_error # None
         THEN [out |-> [shared EXCEPT
                          !.error = IF gw = "expired"
                                    THEN "Draft order has expired. Please create a new order."
                                    ELSE "This order has already been paid",
                          !.error_code = status_error,
                          !.current_step = "payment"],
               input |-> shared, called |-> TRUE, created |-> FALSE]
         ELSE IF state.confirmation_items # << >>
                 /\ state.user_confirmation.kind = "none"
         THEN \* None.get(...) raises AttributeError
              [out |-> InternalError(shared, "payment"),
               input |-> shared, called |-> TRUE, created |-> FALSE]
         ELSE
           LET missing_confirmations ==
                   MissingConfirmations(state.confirmation_items,
                                        state.user_confirmation)
           IN IF missing_confirmations # << >>
              THEN [out |-> [shared EXCEPT
                               !.needs_user_input = TRUE,
                               !.missing_confirmations = missing_confirmations,
                               !.current_step = "awaiting_confirmation",
                               !.error = None],
                    input |-> shared, called |-> TRUE, created |-> FALSE]
              ELSE [out |-> [shared EXCEPT
                               !.payment_ready =
                                   [ready |-> TRUE, payment_intent |-> fresh,
                                    amount |-> "amount"],
                               !.payment_intent_id = fresh,
                               !.tool_calls = List(tool_calls),
                               !.current_step = "payment_ready",
                               !.needs_user_input = TRUE,
                               !.error = None],
                    input |-> shared, called |-> TRUE, created |-> TRUE]

\* a check that looks at the payment method only
ConfirmArgsMissing_methodonly(state) ==
    ~TruthyStr(state.selected_payment_method)

\* a check that only fails when both are missing
ConfirmArgsMissing_both(state) ==
    ~TruthyId(state.payment_intent_id) /\ ~TruthyStr(state.selected_payment_method)

\* confirm_payment_node: `not payment_intent_id or not payment_method`
ConfirmArgsMissing(state) ==
    ~TruthyId(state.payment_intent_id) \/ ~TruthyStr(state.selected_payment_method)

\* _process_payment: the simulated processing always succeeds
ProcessPayment(payment_intent_id, payment_method, draft_order_id, fresh) ==
    [success |-> TRUE, payment_id |-> payment_intent_id, order_id |-> fresh,
     status |-> "succeeded", error_message |-> None]

NoPaymentResult ==
    [success |-> FALSE, payment_id |-> NoIntent, order_id |-> NoOrder,
     status |-> None, error_message |-> None]

\* confirm_payment_node(state); fresh is the id of the order it would create
ConfirmPaymentNode(state, fresh) ==
    IF ConfirmArgsMissing(state)
    THEN [out |-> [state EXCEPT !.error = "Payment method not selected",
                                !.error_code = "INVALID_ARGUMENT",
                                !.current_step = "payment"],
          input |-> state, processed |-> FALSE, success |-> FALSE]
    ELSE
      LET payment_result == ProcessPayment(state.payment_intent_id,
                                           state.selected_payment_method,
                                           state.draft_order_id, fresh)
          tool_calls == Append(state.tool_calls.items, "payment.confirm")
          shared == IF state.tool_calls.kind = "list"
                    THEN [state EXCEPT !.tool_calls = List(tool_calls)]
                    ELSE state
      IN IF ~payment_result.success
         THEN [out |-> [shared EXCEPT !.error = "Payment failed",
                                      !.error_code = "PAYMENT_FAILED",
                                      !.payment_result = payment_result,
                                      !.current_step = "payment_failed"],
               input |-> shared, processed |-> TRUE, success |-> FALSE]
         ELSE [out |-> [shared EXCEPT !.payment_result = payment_result,
                                      !.order_id = payment_result.order_id,
                                      !.tool_calls = List(tool_calls),
                                      !.current_step = "payment_complete",
                                      !.error = None],
               input |-> shared, processed |-> TRUE, success |-> TRUE]

\* the Conversation States the payment flow starts from: the Execution
\* stage is over; user_confirmation is None unless the turn carried one
ConfirmationItemLists ==
    { << >>, <<ItemReturnPolicy>>, <<ItemTax, ItemReturnPolicy>> }

PayStartStates ==
    [draft_order_id : {None, "do_test123"},
     confirmation_items : ConfirmationItemLists,
     user_confirmation : {AbsentDict, NoneDict},
     tool_calls : {AbsentList, List(<< >>)},
     payment_intent_id : {NoIntent},
     selected_payment_method : {None},
     payment_ready : {NoBundle},
     payment_result : {NoPaymentResult},
     order_id : {NoOrder},
     missing_confirmations : {<< >>},
     current_step : {"execution_complete"},
     needs_user_input : {FALSE},
     error : {None},
     error_code : {None}]

PayInit ==
    /\ ManagerInit
    /\ SerialIdle
    /\ ret = NoRet
    /\ pstate \in PayStartStates
    /\ handed = None
    /\ intents = 0
    /\ StageIdle

\* the tool call records of a state, none when the key is absent
ToolCallCount(state) == Len(state.tool_calls.items)

\* the driver runs the Payment preparation stage on its state
payment_node ==
    /\ ToolCallCount(pstate) < MaxToolCalls
    /\ \E gw \in GatewayResponses :
        LET r == PaymentNode(pstate, gw, intents + 1)
        IN /\ pstate' = r.out
           /\ handed' = r.input
           /\ intents' = IF r.created THEN intents + 1 ELSE intents
           /\ ret' = [NoRet EXCEPT !.op = "payment_node",
                                   !.arg = IF r.called THEN gw ELSE None,
                                   !.flag = r.created,
                                   !.invoked = r.called]
    /\ UNCHANGED <<storeVars, serialVars, stageVars>>

\* the driver runs the Payment confirmation stage on its state
confirm_payment_node ==
    /\ ToolCallCount(pstate) < MaxToolCalls
    /\ LET r == ConfirmPaymentNode(pstate, pstate.order_id + 1)
       IN /\ pstate' = r.out
          /\ handed' = r.input
          /\ ret' = [NoRet EXCEPT !.op = "confirm_payment_node",
                                  !.flag = r.success,
                                  !.invoked = r.processed]
    /\ UNCHANGED <<storeVars, serialVars, stageVars, intents>>

\* what a user turn can acknowledge: normalised keys, or an item's raw name
ConfirmationDicts ==
    (SUBSET {ItemKey(ItemReturnPolicy), ItemKey(ItemTax)}) \cup {{ItemReturnPolicy}}

\* a user turn carrying user_confirmation (Session._build_input_state)
supply_confirmation ==
    /\ \E keys \in ConfirmationDicts :
        /\ pstate' = [pstate EXCEPT !.user_confirmation = Dict(keys)]
        /\ ret' = [NoRet EXCEPT !.op = "user_confirmation"]
    /\ handed' = None
    /\ UNCHANGED <<storeVars, serialVars, stageVars, intents>>

\* a user turn carrying selected_payment_method (Session._build_input_state)
PaymentMethodChoices == {"card", ""}
select_payment_method ==
    /\ \E method \in PaymentMethodChoices :
        /\ pstate' = [pstate EXCEPT !.selected_payment_method = method]
        /\ ret' = [NoRet EXCEPT !.op = "selected_payment_method"]
    /\ handed' = None
    /\ UNCHANGED <<storeVars, serialVars, stageVars, intents>>

PayNext ==
    \/ payment_node
    \/ confirm_payment_node
    \/ supply_confirmation
    \/ select_payment_method

PaySpec == PayInit /\ [][PayNext]_vars

(***************************************************************************)
(* Verifier stage: verifier_node                                           *)
(***************************************************************************)
MaxCandidates == 16     \* candidates a Candidate stage hands over

VerifyLimit == 15       \* candidates[:15]
NoPrice == -1           \* a pricing check that holds no total_price
NoDays == 0             \* arrival_days_max is None / not in the mission
NoOptionDays == 99      \* fastest_days when there is no shipping option
NoFastest == -1         \* a shipping check that holds no fastest_days

Min(a, b) == IF a <= b THEN a ELSE b

\* the Mission of the run: budget_amount may be absent, None or a number
NoMission == [present |-> FALSE, budget |-> [kind |-> "absent", amount |-> 0],
              arrival_days_max |-> NoDays]
BudgetAmounts == {50}
Budgets == {[kind |-> "absent", amount |-> 0], [kind |-> "none", amount |-> 0]}
           \cup {[kind |-> "set", amount |-> b] : b \in BudgetAmounts}
ArrivalDeadlines == {NoDays, 5}
Missions == [present : {TRUE}, budget : Budgets, arrival_days_max : ArrivalDeadlines]

\* the candidates of a Candidate stage: n offers with different offer ids
Candidates(n) == [i \in 1..n |-> [offer_id |-> i]]

\* what pricing.get_realtime_quote can answer: it raises, ok = false,
\* ok = true without the data dict, or ok = true with a total_price
QuotePrices == {40, 50, 60}
PricingAnswers ==
    {[kind |-> k, total_price |-> NoPrice] : k \in {"raise", "not_ok", "no_data"}}
    \cup {[kind |-> "ok", total_price |-> p] : p \in QuotePrices}

\* what compliance.check_item can answer
ComplianceAnswers ==
    {[kind |-> k, allowed |-> TRUE, warnings |-> << >>] : k \in {"raise", "not_ok"}}
    \cup {[kind |-> "ok", allowed |-> TRUE, warnings |-> << >>],
          [kind |-> "ok", allowed |-> TRUE, warnings |-> <<"battery">>],
          [kind |-> "ok", allowed |-> FALSE, warnings |-> << >>]}

\* what shipping.quote_options can answer; etas: eta_min_days of the options
ShippingAnswers ==
    {[kind |-> k, etas |-> << >>] : k \in {"raise", "not_ok"}}
    \cup {[kind |-> "ok", etas |-> e] : e \in {<< >>, <<2>>, <<10, 7>>}}

ToolAnswers ==
    [pricing : PricingAnswers, compliance : ComplianceAnswers,
     shipping : ShippingAnswers]

\* answers that differ from a plain success in one or two of the checks
VariedAnswers ==
    {a \in ToolAnswers :
        /\ a.shipping = [kind |-> "ok", etas |-> <<2>>]
        /\ a.compliance.warnings = << >>
        /\ a.compliance.kind # "not_ok"
        /\ a.pricing.kind \in {"ok", "raise"}
        /\ a.pricing.total_price # 50}

\* the answers of one run: the same for every candidate, or alternating
Worlds ==
    {<<a>> : a \in ToolAnswers}
    \cup {<<a, b>> : a \in VariedAnswers, b \in VariedAnswers}

\* what the tools answer for the i-th candidate
AnswersAt(w, i) == w[((i - 1) % Len(w)) + 1]

\* _build_verifier_tool_call
BuildVerifierToolCall(tool_name, ok) == [tool_name |-> tool_name, ok |-> ok]

\* the verification_result a candidate starts with
NewVerification(candidate) ==
    [offer_id |-> candidate.offer_id,
     passed |-> TRUE,
     warnings |-> << >>,
     rejection_reason |-> None,
     pricing |-> [passed |-> FALSE, total_price |-> NoPrice],
     compliance |-> [passed |-> TRUE],
     shipping |-> [passed |-> TRUE, fastest_days |-> NoFastest]]

\* a comparison that also rejects a price equal to the budget
OverBudget_inclusive(total_price, budget) ==
    budget.kind = "set" /\ total_price >= budget.amount

\* `budget_amount is not None and total_price > budget_amount`, the budget
\* being float("inf") when the mission does not name one
OverBudget(total_price, budget) ==
    budget.kind = "set" /\ total_price > budget.amount

\* a price check whose exception path leaves no trace
PricingStep_silent(v, mission, answer) ==
    IF answer.kind = "ok"
    THEN [v |-> [v EXCEPT
                   !.pricing = [passed |-> TRUE, total_price |-> answer.total_price],
                   !.passed = IF OverBudget(answer.total_price, mission.budget)
                              THEN FALSE ELSE @,
                   !.rejection_reason =
                       IF OverBudget(answer.total_price, mission.budget)
                       THEN "Price exceeds budget" ELSE @],
          calls |-> <<BuildVerifierToolCall("pricing.get_realtime_quote", TRUE)>>]
    ELSE IF answer.kind = "not_ok"
    THEN [v |-> [v EXCEPT
                   !.pricing = [passed |-> FALSE, total_price |-> NoPrice],
                   !.warnings = Append(@, "Could not get real-time price")],
          calls |-> <<BuildVerifierToolCall("pricing.get_realtime_quote", FALSE)>>]
    ELSE [v |-> [v EXCEPT !.pricing = [passed |-> FALSE, total_price |-> NoPrice]],
          calls |-> << >>]

\* verifier_node, check 1: the verification_result after the price check
\* and the tool call records the check appends
PricingStep(v, mission, answer) ==
    IF answer.kind = "ok"
    THEN [v |-> [v EXCEPT
                   !.pricing = [passed |-> TRUE, total_price |-> answer.total_price],
                   !.passed = IF OverBudget(answer.total_price, mission.budget)
                              THEN FALSE ELSE @,
                   !.rejection_reason =
                       IF OverBudget(answer.total_price, mission.budget)
                       THEN "Price exceeds budget" ELSE @],
          calls |-> <<BuildVerifierToolCall("pricing.get_realtime_quote", TRUE)>>]
    ELSE IF answer.kind = "not_ok"
    THEN [v |-> [v EXCEPT
                   !.pricing = [passed |-> FALSE, total_price |-> NoPrice],
                   !.warnings = Append(@, "Could not get real-time price")],
          calls |-> <<BuildVerifierToolCall("pricing.get_realtime_quote", FALSE)>>]
    ELSE \* the call raised, or price_result["data"] is not a dict
         [v |-> [v EXCEPT !.pricing = [passed |-> FALSE, total_price |-> NoPrice]],
          calls |-> <<BuildVerifierToolCall("pricing.get_realtime_quote", FALSE)>>]

\* verifier_node, check 2: compliance
ComplianceStep(v, answer) ==
    IF answer.kind = "ok"
    THEN [v |-> [v EXCEPT
                   !.compliance = [passed |-> answer.allowed],
                   !.passed = IF ~answer.allowed THEN FALSE ELSE @,
                   !.rejection_reason =
                       IF ~answer.allowed THEN "Compliance blocked" ELSE @,
                   !.warnings = @ \o answer.warnings],
          calls |-> <<BuildVerifierToolCall("compliance.check_item", TRUE)>>]
    ELSE [v |-> [v EXCEPT
                   !.compliance = [passed |-> TRUE],
                   !.warnings = Append(@, "Compliance check unavailable")],
          calls |-> <<BuildVerifierToolCall("compliance.check_item", FALSE)>>]

\* min(eta_min_days of the options), 99 when there is none
FastestDays(etas) ==
    IF etas = << >> THEN NoOptionDays
    ELSE CHOOSE d \in {etas[i] : i \in 1..Len(etas)} :
            \A j \in 1..Len(etas) : d <= etas[j]

\* verifier_node, check 3: shipping
ShippingStep(v, mission, answer) ==
    IF answer.kind = "ok"
    THEN LET fastest_days == FastestDays(answer.etas)
             late == mission.arrival_days_max # NoDays
                     /\ fastest_days > mission.arrival_days_max
         IN [v |-> [v EXCEPT
                      !.shipping = [passed |-> Len(answer.etas) > 0,
                                    fastest_days |-> fastest_days],
                      !.warnings = IF late
                                   THEN Append(@, "Fastest shipping exceeds deadline")
                                   ELSE @],
             calls |-> <<BuildVerifierToolCall("shipping.quote_options", TRUE)>>]
    ELSE [v |-> [v EXCEPT
                   !.shipping = [passed |-> TRUE, fastest_days |-> NoFastest]],
          calls |-> <<BuildVerifierToolCall("shipping.quote_options", FALSE)>>]

\* one pass of the loop body: the three checks of a candidate
VerifyCandidate(candidate, mission, answers) ==
    LET p == PricingStep(NewVerification(candidate), mission, answers.pricing)
        c == ComplianceStep(p.v, answers.compliance)
        h == ShippingStep(c.v, mission, answers.shipping)
    IN [v |-> h.v, calls |-> p.calls \o c.calls \o h.calls]

\* the key verified_candidates is sorted by: total_price, inf without one
PriceBefore(a, b) ==
    /\ a.pricing.total_price # NoPrice
    /\ (b.pricing.total_price = NoPrice
        \/ a.pricing.total_price < b.pricing.total_price)

\* list.sort(key = total_price): stable insertion of v into a sorted list
RECURSIVE InsertByPrice(_, _)
InsertByPrice(sorted, v) ==
    IF sorted = << >> THEN <<v>>
    ELSE IF PriceBefore(v, sorted[Len(sorted)])
    THEN Append(InsertByPrice(SubSeq(sorted, 1, Len(sorted) - 1), v),
                sorted[Len(sorted)])
    ELSE Append(sorted, v)

RECURSIVE SortByPrice(_)
SortByPrice(list) ==
    IF list = << >> THEN << >>
    ELSE InsertByPrice(SortByPrice(SubSeq(list, 1, Len(list) - 1)),
                       list[Len(list)])

\* the loop over candidates[:15], from candidate i on
RECURSIVE VerifyLoop(_, _, _, _, _)
VerifyLoop(candidates, mission, w, i, acc) ==
    IF i > Min(Len(candidates), VerifyLimit) THEN acc
    ELSE LET r == VerifyCandidate(candidates[i], mission, AnswersAt(w, i))
         IN VerifyLoop(candidates, mission, w, i + 1,
                [verified |-> IF r.v.passed THEN Append(acc.verified, r.v)
                              ELSE acc.verified,
                 rejected |-> IF r.v.passed THEN acc.rejected
                              ELSE Append(acc.rejected, r.v),
                 calls |-> acc.calls \o r.calls])

\* verifier_node(state) in a run where the tools answer as w says.
\* out: the returned state; input: the handed state object after the call
VerifierNode(state, w) ==
    IF ~state.mission.present
    THEN [out |-> [state EXCEPT !.error = "No mission found",
                                !.error_code = "INVALID_ARGUMENT",
                                !.current_step = "verifier"],
          input |-> state]
    ELSE IF state.candidates = << >>
    THEN [out |-> [state EXCEPT !.error = "No candidates to verify",
                                !.error_code = "INVALID_ARGUMENT",
                                !.current_step = "verifier"],
          input |-> state]
    ELSE
      LET r == VerifyLoop(state.candidates, state.mission, w, 1,
                          [verified |-> << >>, rejected |-> << >>,
                           calls |-> << >>])
          \* tool_calls = state.get("tool_calls", []); the appends go to
          \* the list inside the handed state when there is one
          tool_calls == state.tool_calls.items \o r.calls
          shared == IF state.tool_calls.kind = "list"
                    THEN [state EXCEPT !.tool_calls = List(tool_calls)]
                    ELSE state
      IN [out |-> [shared EXCEPT
                     !.verified_candidates = SortByPrice(r.verified),
                     !.rejected_candidates = r.rejected,
                     !.tool_calls = List(tool_calls),
                     !.current_step = "verifier_complete",
                     !.error = None],
          input |-> shared]

\* records a state can carry from the earlier stages
PriorToolCalls == {AbsentList, List(<<BuildVerifierToolCall("catalog.search_offers", TRUE)>>)}

VerifyStartStates ==
    {[mission |-> m, candidates |-> Candidates(n), tool_calls |-> t,
      verified_candidates |-> << >>, rejected_candidates |-> << >>,
      current_step |-> "candidate_complete", error |-> None,
      error_code |-> None] :
        m \in Missions \cup {NoMission}, n \in 0..MaxCandidates, t \in PriorToolCalls}

VerifyInit ==
    /\ ManagerInit
    /\ SerialIdle
    /\ PayIdle
    /\ ret = NoRet
    /\ sstate \in VerifyStartStates
    /\ given = None
    /\ world = None

\* the driver runs the Verifier stage on the state the Candidate stage left
verifier_node ==
    /\ sstate.current_step = "candidate_complete"
    /\ \E w \in Worlds :
        LET r == VerifierNode(sstate, w)
        IN /\ sstate' = r.out
           /\ given' = r.input
           /\ world' = w
    /\ ret' = [NoRet EXCEPT !.op = "verifier_node"]
    /\ UNCHANGED <<storeVars, serialVars, payVars>>

VerifyNext == verifier_node

VerifySpec == VerifyInit /\ [][VerifyNext]_vars

(***************************************************************************)
(* Plan stage: plan_node (amounts in cents)                                *)
(***************************************************************************)
MaxVerified == 6        \* verified candidates a Verifier stage hands over

MaxPlans_six == 5 + 1       \* a cap one plan too high
MaxPlans == 5           \* `if len(plans) >= 5: break`
InfKey == 100000000     \* float("inf") as a sort key
DefaultShippingCost == 999      \* shipping.get("cheapest_price", 9.99)
DefaultFastestDays == 7         \* shipping.get("fastest_days", 7)

\* the Missions of the Plan stage: destination, quantity and
\* objective_weights (in tenths)
PlanMissions ==
    {[present |-> TRUE, destination_country |-> "US", quantity |-> 1,
      weights |-> [price |-> 4, speed |-> 3, risk |-> 3]],
     [present |-> TRUE, destination_country |-> "DE", quantity |-> 2,
      weights |-> [price |-> 4, speed |-> 4, risk |-> 2]]}

\* what a verified candidate can look like after the three checks:
\* unit_price / total_price (NoPrice: the pricing check holds none),
\* fastest_days (NoFastest: none), cheapest_price, warnings, required_docs
Profiles ==
    {[unit_price |-> 2999, total_price |-> 2999, fastest_days |-> 5,
      cheapest_price |-> 999, warnings |-> << >>, required_docs |-> << >>],
     [unit_price |-> 10, total_price |-> 10, fastest_days |-> 10,
      cheapest_price |-> 500, warnings |-> <<"battery">>, required_docs |-> << >>],
     [unit_price |-> 2999, total_price |-> 2999, fastest_days |-> 2,
      cheapest_price |-> 1500, warnings |-> << >>, required_docs |-> <<"CE">>],
     [unit_price |-> NoPrice, total_price |-> NoPrice, fastest_days |-> NoFastest,
      cheapest_price |-> NoPrice,
      warnings |-> <<"Could not get real-time price", "Compliance check unavailable">>,
      required_docs |-> << >>]}

\* a verification result with the given offer id
WithOffer(profile, offer_id) ==
    [offer_id |-> offer_id,
     unit_price |-> profile.unit_price, total_price |-> profile.total_price,
     fastest_days |-> profile.fastest_days,
     cheapest_price |-> profile.cheapest_price,
     warnings |-> profile.warnings, required_docs |-> profile.required_docs]

\* the profiles of a list repeat with a period of one, two or three
ProfilePatterns == UNION {[1..k -> Profiles] : k \in 1..3}

\* lists of verified candidates: offer ids all different, or all the same
VerifiedLists ==
    UNION {{[i \in 1..n |-> WithOffer(f[((i - 1) % Len(f)) + 1],
                                      IF same THEN 1 ELSE i)] :
                f \in ProfilePatterns, same \in BOOLEAN} : n \in 0..MaxVerified}

\* sorted(list, key): the indices of a list in the stable ascending order
\* of their keys
StableOrder(keys) ==
    LET n == Len(keys)
        rank(i) == 1 + Cardinality({j \in 1..n :
                            \/ keys[j] < keys[i]
                            \/ (keys[j] = keys[i] /\ j < i)})
    IN [r \in 1..n |-> CHOOSE i \in 1..n : rank(i) = r]

SortedBy(list, keys) == [r \in 1..Len(list) |-> list[StableOrder(keys)[r]]]

\* get_total_price
get_total_price(x) == IF x.total_price = NoPrice THEN InfKey ELSE x.total_price

\* get_fastest_days
get_fastest_days(x) == IF x.fastest_days = NoFastest THEN 999 ELSE x.fastest_days

\* compute_score, times 150000 * 10: the weights are tenths, the price
\* score is in 1/50000, the speed score in 1/30, the risk score in 1/5
compute_score(candidate, weights) ==
    LET price == IF candidate.total_price = NoPrice THEN 10000
                 ELSE candidate.total_price
        days == IF candidate.fastest_days = NoFastest THEN 14
                ELSE candidate.fastest_days
        warnings_count == Len(candidate.warnings)
        price_score == Max(0, 50000 - price) * 3
        speed_score == Max(0, 30 - days) * 5000
        risk_score == Max(0, 5 - warnings_count) * 30000
    IN weights.price * price_score + weights.speed * speed_score
       + weights.risk * risk_score

\* a tax model with one rate for every destination
TaxRatePercent_flat(destination_country) == 8

\* tax_rate, in percent
TaxRatePercent(destination_country) ==
    IF destination_country = "US" THEN 8 ELSE 15

\* round(x, 2) of an amount x given in 1/100 cent; a value exactly between
\* two cents goes where the float's binary representation puts it (tie)
RoundCents(x, tie) ==
    LET q == x \div 100
        r == x % 100
    IN IF r < 50 THEN q
       ELSE IF r > 50 THEN q + 1
       ELSE IF tie = "up" THEN q + 1 ELSE q

\* a confidence that looks at the candidate's warnings only
PlanConfidence_candidate(candidate_warnings, risks) ==
    IF candidate_warnings = << >> THEN "0.8" ELSE "0.6"

\* confidence = 0.8 if not warnings else 0.6, warnings being the plan's risks
PlanConfidence(candidate_warnings, risks) ==
    IF risks = << >> THEN "0.8" ELSE "0.6"

\* _create_plan
create_plan(candidate, plan_name, plan_type, quantity, destination_country, tie) ==
    LET unit_price == IF candidate.unit_price = NoPrice THEN 0
                      ELSE candidate.unit_price
        total_price == IF candidate.total_price = NoPrice
                       THEN unit_price * quantity ELSE candidate.total_price
        shipping_cost == IF candidate.cheapest_price = NoPrice
                         THEN DefaultShippingCost ELSE candidate.cheapest_price
        tax_estimate == total_price * TaxRatePercent(destination_country)
        total_landed == total_price * 100 + shipping_cost * 100 + tax_estimate
        fastest_days == IF candidate.fastest_days = NoFastest
                        THEN DefaultFastestDays ELSE candidate.fastest_days
        warnings == IF candidate.required_docs # << >>
                    THEN Append(candidate.warnings, "Required certifications")
                    ELSE candidate.warnings
    IN [plan_name |-> plan_name,
        plan_type |-> plan_type,
        offer_id |-> candidate.offer_id,
        quantity |-> quantity,
        unit_price |-> unit_price,
        total |-> [subtotal |-> RoundCents(total_price * 100, tie),
                   shipping_cost |-> RoundCents(shipping_cost * 100, tie),
                   tax_estimate |-> RoundCents(tax_estimate, tie),
                   total_landed_cost |-> RoundCents(total_landed, tie)],
        delivery |-> [min_days |-> fastest_days, max_days |-> fastest_days + 7],
        risks |-> warnings,
        confidence |-> PlanConfidence(candidate.warnings, warnings),
        source |-> candidate]

\* a choice that takes the head of the list whether it is used or not
FirstUnused_head(list, used) ==
    IF list = << >> THEN << >> ELSE <<list[1]>>

\* the first candidate of a list whose offer id is not used yet; << >> if none
FirstUnused(list, used) ==
    LET free == {i \in 1..Len(list) : list[i].offer_id \notin used}
    IN IF free = {} THEN << >>
       ELSE <<list[CHOOSE i \in free : \A j \in free : i <= j]>>

\* the extra plans: one per unused candidate while fewer than 5 plans exist
ExtraPlanNames == <<[name |-> "Premium Choice", type |-> "best_value"],
                    [name |-> "Economy Option", type |-> "cheapest"]>>

RECURSIVE ExtraPlans(_, _, _, _, _, _, _)
ExtraPlans(candidates, i, plans, used, extra_idx, mission, tie) ==
    IF i > Len(candidates) \/ Len(plans) >= MaxPlans THEN plans
    ELSE IF candidates[i].offer_id \in used
    THEN ExtraPlans(candidates, i + 1, plans, used, extra_idx, mission, tie)
    ELSE LET pick == ExtraPlanNames[(extra_idx % Len(ExtraPlanNames)) + 1]
         IN ExtraPlans(candidates, i + 1,
                Append(plans, create_plan(candidates[i], pick.name, pick.type,
                                          mission.quantity,
                                          mission.destination_country, tie)),
                used \cup {candidates[i].offer_id}, extra_idx + 1, mission, tie)

\* the plans plan_node builds from a non-empty verified_candidates
BuildPlans(verified_candidates, mission, tie) ==
    LET n == Len(verified_candidates)
        by_price == SortedBy(verified_candidates,
                        [i \in 1..n |-> get_total_price(verified_candidates[i])])
        by_speed == SortedBy(verified_candidates,
                        [i \in 1..n |-> get_fastest_days(verified_candidates[i])])
        \* sorted(..., reverse=True) keeps equal candidates in their order
        by_score == SortedBy(verified_candidates,
                        [i \in 1..n |-> 0 - compute_score(verified_candidates[i],
                                                         mission.weights)])
        plan(c, name, type) == create_plan(c, name, type, mission.quantity,
                                           mission.destination_country, tie)
        cheapest == by_price[1]
        plans1 == <<plan(cheapest, "Budget Saver", "cheapest")>>
        used1 == {cheapest.offer_id}
        unused2 == FirstUnused(by_speed, used1)
        fastest_candidate == IF unused2 # << >> THEN unused2[1]
                             ELSE IF n > 1 THEN by_speed[2] ELSE by_speed[1]
        plans2 == Append(plans1, plan(fastest_candidate, "Express Delivery", "fastest"))
        used2 == used1 \cup {fastest_candidate.offer_id}
        unused3 == FirstUnused(by_score, used2)
        best_value == IF unused3 # << >> THEN unused3
                      ELSE IF n > 2 THEN <<by_score[3]>>
                      ELSE IF n > 1 THEN <<by_score[2]>>
                      ELSE << >>
        plans3 == IF best_value # << >>
                  THEN Append(plans2, plan(best_value[1], "Best Value", "best_value"))
                  ELSE plans2
        used3 == IF best_value # << >> THEN used2 \cup {best_value[1].offer_id}
                 ELSE used2
        plans4 == ExtraPlans(verified_candidates, 1, plans3, used3, 0, mission, tie)
    IN IF Len(plans4) = 0
       THEN <<plan(verified_candidates[1], "Recommended", "best_value")>>
       ELSE plans4

\* what the LLM does for the plan recommendation: not configured, it
\* names a plan, or it fails
PlanLLM == {"off", "names", "fails"}

\* plan_node(state); tie: see RoundCents
PlanNode(state, llm, tie) ==
    IF ~state.mission.present
    THEN [state EXCEPT !.error = "No mission found",
                       !.error_code = "INVALID_ARGUMENT",
                       !.current_step = "plan"]
    ELSE IF state.verified_candidates = << >>
    THEN [state EXCEPT !.error = "No verified candidates available",
                       !.error_code = "NOT_FOUND",
                       !.current_step = "plan",
                       !.plans = << >>]
    ELSE LET plans == BuildPlans(state.verified_candidates, state.mission, tie)
         IN [state EXCEPT
               !.plans = plans,
               !.recommended_plan = IF llm = "names" THEN "Best Value"
                                    ELSE plans[1].plan_name,
               !.current_step = "plan_complete",
               !.error = None]

PlanStartStates ==
    [mission : PlanMissions,
     verified_candidates : VerifiedLists,
     plans : {<< >>},
     recommended_plan : {None},
     current_step : {"verifier_complete"},
     error : {None},
     error_code : {None}]

PlanInit ==
    /\ ManagerInit
    /\ SerialIdle
    /\ PayIdle
    /\ ret = NoRet
    /\ sstate \in PlanStartStates
    /\ given = None
    /\ world = None

\* the driver runs the Plan stage on the state the Verifier stage left
plan_node ==
    /\ sstate.current_step = "verifier_complete"
    /\ \E llm \in PlanLLM, tie \in {"up", "down"} :
        /\ sstate' = PlanNode(sstate, llm, tie)
        /\ world' = [llm |-> llm, tie |-> tie]
    /\ given' = sstate
    /\ ret' = [NoRet EXCEPT !.op = "plan_node"]
    /\ UNCHANGED <<storeVars, serialVars, payVars>>

PlanNext == plan_node

PlanSpec == PlanInit /\ [][PlanNext]_vars

(***************************************************************************)
(* Compliance stage: risk level of one compliance result                   *)
(* (src/agents/src/compliance/node.py)                                     *)
(***************************************************************************)
MaxRiskTags == 2        \* risk tags detected on one item
MaxIssues == 1          \* blocking issues the check reports
MaxWarnings == 2        \* warnings the check reports
MaxDocs == 3            \* required documents the check reports

\* a list of k texts
Texts(k) == [i \in 1..k |-> "text"]

\* risk tag ids an item can carry
RiskTagIds == {"battery_included", "liquid", "fragile", "magnetic"}

RiskTagLists == UNION {[1..k -> RiskTagIds] : k \in 0..MaxRiskTags}

\* risk_tag_defs: tag id -> definition; {} when get_risk_tags failed or
\* returned no tag. "liquid" has no definition in the first table.
NoRiskTagDefs == [t \in {} |-> [severity |-> "info"]]

RiskTagDefTables ==
    {NoRiskTagDefs,
     [t \in {"battery_included", "fragile", "magnetic"} |->
         [severity |-> IF t = "battery_included" THEN "critical" ELSE "warning"]],
     [t \in RiskTagIds |-> [severity |-> "info"]]}

\* risk_tag_defs.get(tag, {}).get("severity", "info")
Severity(risk_tag_defs, tag) ==
    IF tag \in DOMAIN risk_tag_defs THEN risk_tag_defs[tag].severity ELSE "info"

\* the hard-coded fallback set
HighRiskTags_battery == {"battery_included"}

HighRiskTags == {"battery_included", "liquid", "food", "medical"}

\* the rules on the sizes of the lists
VolumeRiskLevel(issues, warnings, required_docs) ==
    IF Len(issues) > 0 \/ Len(required_docs) > 2 THEN "high"
    ELSE IF Len(warnings) > 1 \/ Len(required_docs) > 0 THEN "medium"
    ELSE IF Len(warnings) = 1 THEN "low"
    ELSE "minimal"

\* _assess_risk_level(allowed, issues, warnings, required_docs, risk_tags,
\*                    risk_tag_defs)
assess_risk_level(allowed, issues, warnings, required_docs, risk_tags, risk_tag_defs) ==
    LET has(sev) == \E k \in 1..Len(risk_tags) :
                        Severity(risk_tag_defs, risk_tags[k]) = sev
        has_critical == has("critical")
        has_warning == has("warning")
        volume == VolumeRiskLevel(issues, warnings, required_docs)
    IN IF ~allowed THEN "blocked"
       ELSE IF DOMAIN risk_tag_defs # {}
            THEN IF has_critical THEN "high"
                 ELSE IF has_warning /\ Len(risk_tags) > 1 THEN "high"
                 ELSE IF has_warning THEN "medium"
                 ELSE volume
            ELSE IF \E k \in 1..Len(risk_tags) : risk_tags[k] \in HighRiskTags
                 THEN "high"
                 ELSE volume

\* the result compliance_node holds for one candidate before the
\* assessment: risk_level is still the "low" it was created with
ComplianceResults ==
    [allowed : BOOLEAN,
     risk_level : {"low"},
     issues : {Texts(k) : k \in 0..MaxIssues},
     warnings : {Texts(k) : k \in 0..MaxWarnings},
     required_docs : {Texts(k) : k \in 0..MaxDocs},
     detected_risk_tags : RiskTagLists]

RiskInit ==
    /\ ManagerInit
    /\ SerialIdle
    /\ PayIdle
    /\ ret = NoRet
    /\ sstate \in ComplianceResults
    /\ given = None
    /\ world \in RiskTagDefTables

\* result["risk_level"] = _assess_risk_level(...)
assess_result ==
    /\ ret.op = "init"
    /\ sstate' = [sstate EXCEPT !.risk_level =
                      assess_risk_level(sstate.allowed, sstate.issues,
                                        sstate.warnings, sstate.required_docs,
                                        sstate.detected_risk_tags, world)]
    /\ given' = sstate
    /\ ret' = [NoRet EXCEPT !.op = "_assess_risk_level"]
    /\ UNCHANGED <<storeVars, serialVars, payVars, world>>

RiskNext == assess_result

RiskSpec == RiskInit /\ [][RiskNext]_vars

(***************************************************************************)
(* Candidate stage (src/agents/src/candidate/node.py)                      *)
(* Texts are sequences of characters, so that `term in title` is the       *)
(* substring test Python makes.                                            *)
(***************************************************************************)
MaxOffers == 21         \* offer ids one search returns
HydrateLimit == 20      \* offer_ids[:20]
DefaultSearchScore == 50    \* 0.5, in hundredths

\* str.lower() on the characters the texts use
AsciiLower(c) ==
    CASE c = "U" -> "u"
      [] c = "S" -> "s"
      [] c = "B" -> "b"
      [] c = "C" -> "c"
      [] c = "W" -> "w"
      [] c = "A" -> "a"
      [] c = "P" -> "p"
      [] c = "F" -> "f"
      [] OTHER -> c

lower(text) == [i \in 1..Len(text) |-> AsciiLower(text[i])]

\* term in text
Contains(term, text) ==
    \E i \in 0..(Len(text) - Len(term)) : SubSeq(text, i + 1, i + Len(term)) = term

\* a term of the list occurs in the text
AnyIn(terms, text) == \E k \in 1..Len(terms) : Contains(terms[k], text)

\* the common variations added to the English product type
CommonVariations(en_lower) ==
    CASE en_lower = <<"c", "h", "a", "r", "g", "e", "r">> ->
             <<<<"c", "h", "a", "r", "g", "i", "n", "g">>,
                 <<"p", "o", "w", "e", "r", " ", "a", "d", "a", "p", "t", "e", "r">>,
                 <<"u", "s", "b", " ", "c", "h", "a", "r", "g", "e", "r">>,
                 <<"w", "a", "l", "l", " ", "c", "h", "a", "r", "g", "e", "r">>>>
      [] en_lower = <<"d", "r", "e", "s", "s">> ->
             <<<<"g", "o", "w", "n">>,
                 <<"f", "r", "o", "c", "k">>>>
      [] en_lower = <<"b", "l", "a", "z", "e", "r">> ->
             <<<<"s", "u", "i", "t", " ", "j", "a", "c", "k", "e", "t">>,
                 <<"s", "p", "o", "r", "t", " ", "c", "o", "a", "t">>,
                 <<"s", "u", "i", "t", " ", "b", "l", "a", "z", "e", "r">>>>
      [] en_lower = <<"p", "h", "o", "n", "e", " ", "c", "a", "s", "e">> ->
             <<<<"c", "a", "s", "e">>,
                 <<"p", "h", "o", "n", "e", " ", "c", "o", "v", "e", "r">>,
                 <<"p", "r", "o", "t", "e", "c", "t", "i", "v", "e", " ", "c", "a", "s", "e">>>>
      [] OTHER -> << >>

\* rejection_pairs: titles that name another kind of product
RejectionTerms(product_type_key) ==
    CASE product_type_key = <<"c", "h", "a", "r", "g", "e", "r">> ->
             <<<<"c", "a", "s", "e">>,
                 <<"s", "t", "a", "n", "d">>,
                 <<"h", "o", "l", "d", "e", "r">>,
                 <<"m", "o", "u", "n", "t">>,
                 <<"s", "c", "r", "e", "e", "n", " ", "p", "r", "o", "t", "e", "c", "t", "o", "r">>,
                 <<"f", "i", "l", "m">>,
                 <<"e", "a", "r", "p", "h", "o", "n", "e">>,
                 <<"h", "e", "a", "d", "p", "h", "o", "n", "e">>>>
      [] product_type_key = <<"p", "h", "o", "n", "e", " ", "c", "a", "s", "e">> ->
             <<<<"c", "h", "a", "r", "g", "e", "r">>,
                 <<"s", "t", "a", "n", "d">>,
                 <<"h", "o", "l", "d", "e", "r">>,
                 <<"c", "a", "b", "l", "e">>,
                 <<"s", "c", "r", "e", "e", "n", " ", "p", "r", "o", "t", "e", "c", "t", "o", "r">>>>
      [] product_type_key = <<"d", "r", "e", "s", "s">> ->
             <<<<"s", "k", "i", "r", "t">>,
                 <<"b", "l", "o", "u", "s", "e">>,
                 <<"t", "o", "p">>,
                 <<"p", "a", "n", "t", "s">>,
                 <<"s", "h", "i", "r", "t">>,
                 <<"s", "h", "o", "r", "t", "s">>>>
      [] product_type_key = <<"b", "l", "a", "z", "e", "r">> ->
             <<<<"s", "h", "i", "r", "t">>,
                 <<"p", "a", "n", "t", "s">>,
                 <<"s", "h", "o", "e", "s">>,
                 <<"t", "-", "s", "h", "i", "r", "t">>,
                 <<"j", "e", "a", "n", "s">>,
                 <<"s", "n", "e", "a", "k", "e", "r", "s">>>>
      [] OTHER -> << >>

\* what the LLM does when asked about one product: it answers relevant or
\* not relevant, returns nothing, or the call raises
RelevanceLLM == {"relevant", "irrelevant", "none", "raises"}

\* a validation that looks at the rejection table first
validate_candidate_relevance_rejectfirst(candidate, primary_type, primary_type_en, llm) ==
    LET title == IF candidate.titles # << >> THEN candidate.titles[1] ELSE << >>
        title_lower == lower(title)
        category_lower == lower(candidate.category)
        search_terms ==
            (IF primary_type # << >> THEN <<lower(primary_type)>> ELSE << >>)
            \o (IF primary_type_en # << >>
                THEN <<lower(primary_type_en)>> \o CommonVariations(lower(primary_type_en))
                ELSE << >>)
        product_type_key == IF primary_type_en # << >> THEN lower(primary_type_en)
                            ELSE lower(primary_type)
    IN IF search_terms = << >>
       THEN [is_relevant |-> TRUE, by |-> "no_filter", llm_calls |-> 0]
       ELSE IF AnyIn(RejectionTerms(product_type_key), title_lower)
       THEN [is_relevant |-> FALSE, by |-> "rejection", llm_calls |-> 0]
       ELSE IF AnyIn(search_terms, title_lower) \/ AnyIn(search_terms, category_lower)
       THEN [is_relevant |-> TRUE, by |-> "contains", llm_calls |-> 0]
       ELSE IF llm = "relevant"
       THEN [is_relevant |-> TRUE, by |-> "llm", llm_calls |-> 1]
       ELSE IF llm = "irrelevant"
       THEN [is_relevant |-> FALSE, by |-> "llm", llm_calls |-> 1]
       ELSE [is_relevant |-> TRUE, by |-> "default", llm_calls |-> 1]

\* _validate_candidate_relevance(candidate, primary_type, primary_type_en);
\* by: the step that decided
validate_candidate_relevance(candidate, primary_type, primary_type_en, llm) ==
    LET title == IF candidate.titles # << >> THEN candidate.titles[1] ELSE << >>
        title_lower == lower(title)
        category_lower == lower(candidate.category)
        search_terms ==
            (IF primary_type # << >> THEN <<lower(primary_type)>> ELSE << >>)
            \o (IF primary_type_en # << >>
                THEN <<lower(primary_type_en)>> \o CommonVariations(lower(primary_type_en))
                ELSE << >>)
        product_type_key == IF primary_type_en # << >> THEN lower(primary_type_en)
                            ELSE lower(primary_type)
    IN IF search_terms = << >>
       THEN [is_relevant |-> TRUE, by |-> "no_filter", llm_calls |-> 0]
       ELSE IF AnyIn(search_terms, title_lower) \/ AnyIn(search_terms, category_lower)
       THEN [is_relevant |-> TRUE, by |-> "contains", llm_calls |-> 0]
       ELSE IF AnyIn(RejectionTerms(product_type_key), title_lower)
       THEN [is_relevant |-> FALSE, by |-> "rejection", llm_calls |-> 0]
       ELSE IF llm = "relevant"
       THEN [is_relevant |-> TRUE, by |-> "llm", llm_calls |-> 1]
       ELSE IF llm = "irrelevant"
       THEN [is_relevant |-> FALSE, by |-> "llm", llm_calls |-> 1]
       ELSE [is_relevant |-> TRUE, by |-> "default", llm_calls |-> 1]

\* the Mission as the Candidate stage reads it
NoCandidateMission ==
    [present |-> FALSE, primary_product_type |-> << >>,
     primary_product_type_en |-> << >>]

CandidateMissions ==
    {[present |-> TRUE, primary_product_type |-> << >>,
      primary_product_type_en |-> << >>],
     [present |-> TRUE, primary_product_type |-> <<"c", "a", "r", "g", "a", "d", "o", "r">>,
      primary_product_type_en |-> <<"c", "h", "a", "r", "g", "e", "r">>],
     [present |-> TRUE, primary_product_type |-> <<"p", "h", "o", "n", "e", " ", "c", "a", "s", "e">>,
      primary_product_type_en |-> << >>]}

\* the answers of catalog.search_offers: the call raises, the envelope is
\* not ok, or it is ok with n offer ids and, or not, a parallel score list
SearchAnswers ==
    {[kind |-> "raise", offer_ids |-> << >>, scores |-> FALSE],
     [kind |-> "not_ok", offer_ids |-> << >>, scores |-> FALSE]}
    \cup {[kind |-> "ok", offer_ids |-> [i \in 1..n |-> i], scores |-> s] :
              n \in 0..MaxOffers, s \in BOOLEAN}

\* scores[idx] if idx < len(scores) else 0.5, in hundredths
SearchScore(search, i) == IF search.scores THEN 96 - i ELSE DefaultSearchScore

\* the answers of catalog.get_offer_card: the call raises, the envelope is
\* not ok, or it is ok and carries a card
OfferCards ==
    {[titles |-> <<<<"U", "S", "B", " ", "C", "h", "a", "r", "g", "e", "r">>>>, category |-> << >>],
     [titles |-> <<<<"p", "h", "o", "n", "e", " ", "c", "a", "s", "e">>>>, category |-> << >>],
     [titles |-> <<<<"l", "a", "m", "p">>>>, category |-> <<"c", "h", "a", "r", "g", "e", "r", "s">>],
     [titles |-> <<<<"l", "a", "m", "p">>>>, category |-> << >>],
     [titles |-> << >>, category |-> << >>]}

CardAnswers ==
    {[kind |-> "raise"], [kind |-> "not_ok"]}
    \cup {[kind |-> "ok", card |-> c] : c \in OfferCards}

\* the cards of one run: the same answer for every offer, or alternating
CardWorlds ==
    {<<a>> : a \in CardAnswers} \cup {<<a, b>> : a \in CardAnswers, b \in CardAnswers}

\* the loop over offer_ids[:20]: the candidates hydrated from offer i on
RECURSIVE Hydrate(_, _, _)
Hydrate(search, cards, i) ==
    IF i > Min(Len(search.offer_ids), HydrateLimit) THEN << >>
    ELSE LET aroc == AnswersAt(cards, i)
         IN (IF aroc.kind = "ok"
             THEN <<[offer_id |-> search.offer_ids[i],
                     titles |-> aroc.card.titles,
                     category |-> aroc.card.category,
                     search_score |-> SearchScore(search, i)]>>
             ELSE << >>)
            \o Hydrate(search, cards, i + 1)

\* the record of the search in the tool-call list
SearchToolCall(offer_ids) ==
    [tool_name |-> "catalog.search_offers", count |-> Len(offer_ids)]

\* candidate_node(state) in a run where the tools and the LLM answer as
\* given. out: the returned state; input: the handed state object after the
\* call
CandidateNode(state, search, cards, llm) ==
    LET mission == state.mission
        failed(error, error_code) ==
            [out |-> [state EXCEPT !.error = error, !.error_code = error_code,
                                   !.current_step = "candidate"],
             input |-> state]
        empty(error, error_code) ==
            [out |-> [state EXCEPT !.candidates = << >>,
                                   !.current_step = "candidate_complete",
                                   !.error = error, !.error_code = error_code],
             input |-> state]
        hydrated == Hydrate(search, cards, 1)
        filtering == (mission.primary_product_type # << >>
                        \/ mission.primary_product_type_en # << >>)
                     /\ hydrated # << >>
        relevant(c) == validate_candidate_relevance(c, mission.primary_product_type,
                            mission.primary_product_type_en, llm).is_relevant
        \* candidate.get("titles", [{}])[0] on a filtered candidate whose
        \* titles list is empty
        index_error == \E k \in 1..Len(hydrated) :
                           ~relevant(hydrated[k]) /\ hydrated[k].titles = << >>
        candidates == IF filtering THEN SelectSeq(hydrated, relevant) ELSE hydrated
        tool_calls == Append(state.tool_calls.items, SearchToolCall(search.offer_ids))
        shared == IF state.tool_calls.kind = "list"
                  THEN [state EXCEPT !.tool_calls = List(tool_calls)]
                  ELSE state
    IN IF ~mission.present THEN failed("No mission found", "INVALID_ARGUMENT")
       ELSE IF search.kind = "raise" THEN failed("search raised", "INTERNAL_ERROR")
       ELSE IF search.kind = "not_ok" THEN failed("Search failed", "UPSTREAM_ERROR")
       ELSE IF search.offer_ids = << >>
       THEN empty("No products found matching your requirements", "NOT_FOUND")
       ELSE IF filtering /\ index_error
       THEN failed("list index out of range", "INTERNAL_ERROR")
       ELSE IF filtering /\ candidates = << >>
       THEN empty("No products matching the product type found", "NO_EXACT_MATCH")
       ELSE [out |-> [shared EXCEPT !.candidates = candidates,
                                    !.current_step = "candidate_complete",
                                    !.tool_calls = List(tool_calls),
                                    !.error = None],
             input |-> shared]

\* the state the Intent stage leaves
CandidateStartStates ==
    {[mission |-> m, candidates |-> << >>, tool_calls |-> t,
      current_step |-> "intent_complete", error |-> None, error_code |-> None] :
        m \in CandidateMissions \cup {NoCandidateMission},
        t \in {AbsentList, List(<< >>)}}

CandidateInit ==
    /\ ManagerInit
    /\ SerialIdle
    /\ PayIdle
    /\ ret = NoRet
    /\ sstate \in CandidateStartStates
    /\ given = None
    /\ world = None

\* the driver runs the Candidate stage on the state the Intent stage left
candidate_node ==
    /\ sstate.current_step = "intent_complete"
    /\ \E search \in SearchAnswers, cards \in CardWorlds, llm \in RelevanceLLM :
        LET r == CandidateNode(sstate, search, cards, llm)
        IN /\ sstate' = r.out
           /\ given' = r.input
           /\ world' = [search |-> search, cards |-> cards, llm |-> llm]
    /\ ret' = [NoRet EXCEPT !.op = "candidate_node"]
    /\ UNCHANGED <<storeVars, serialVars, payVars>>

CandidateNext == candidate_node

CandidateSpec == CandidateInit /\ [][CandidateNext]_vars

(***************************************************************************)
(* Candidate stage: one relevance validation                               *)
(***************************************************************************)
\* the cards one validation is run on
RelevanceCards ==
    OfferCards
    \cup {[titles |-> <<<<"U", "S", "B", " ", "W", "a", "l", "l", " ", "C", "h", "a", "r", "g", "e", "r", " ", "A", "d", "a", "p", "t", "e", "r">>>>, category |-> << >>],
          [titles |-> <<<<"i", "P", "h", "o", "n", "e", " ", "S", "c", "r", "e", "e", "n", " ", "P", "r", "o", "t", "e", "c", "t", "o", "r", " ", "F", "i", "l", "m">>>>, category |-> << >>],
          [titles |-> <<<<"c", "h", "a", "r", "g", "e", "r", " ", "c", "a", "s", "e">>>>, category |-> << >>],
          [titles |-> <<<<"f", "a", "s", "t", " ", "c", "h", "a", "r", "g", "i", "n", "g", " ", "d", "o", "c", "k">>>>, category |-> << >>]}

\* the product types of the Mission: original language and English
RelevanceTypes ==
    {[primary_type |-> << >>, primary_type_en |-> << >>],
     [primary_type |-> <<"c", "a", "r", "g", "a", "d", "o", "r">>, primary_type_en |-> <<"c", "h", "a", "r", "g", "e", "r">>],
     [primary_type |-> << >>, primary_type_en |-> <<"C", "h", "a", "r", "g", "e", "r">>],
     [primary_type |-> <<"p", "h", "o", "n", "e", " ", "c", "a", "s", "e">>, primary_type_en |-> << >>],
     [primary_type |-> << >>, primary_type_en |-> <<"p", "h", "o", "n", "e", " ", "c", "a", "s", "e">>]}

RelevanceInit ==
    /\ ManagerInit
    /\ SerialIdle
    /\ PayIdle
    /\ ret = NoRet
    /\ \E c \in RelevanceCards, t \in RelevanceTypes :
           sstate = [candidate |-> c, primary_type |-> t.primary_type,
                     primary_type_en |-> t.primary_type_en, verdict |-> None]
    /\ given = None
    /\ world \in RelevanceLLM

\* is_relevant, reason = await _validate_candidate_relevance(...)
validate_relevance ==
    /\ ret.op = "init"
    /\ sstate' = [sstate EXCEPT !.verdict =
                      validate_candidate_relevance(sstate.candidate,
                          sstate.primary_type, sstate.primary_type_en, world)]
    /\ given' = sstate
    /\ ret' = [NoRet EXCEPT !.op = "_validate_candidate_relevance"]
    /\ UNCHANGED <<storeVars, serialVars, payVars, world>>

RelevanceNext == validate_relevance

RelevanceSpec == RelevanceInit /\ [][RelevanceNext]_vars

(***************************************************************************)
(* Intent stage (src/agents/src/intent/node.py)                            *)
(***************************************************************************)
MaxMessages == 4        \* messages a Conversation State holds

\* what the configuration and the LLM do in one run of the stage:
\* api_key: an API key is configured; preprocess, parse: the answer of the
\* preprocessing call and of the intent parse (none: call_llm_and_parse
\* returned None; clarify: the result asks for clarification)
IntentWorlds ==
    [api_key : BOOLEAN,
     preprocess : {"none", "clarify", "ok"},
     parse : {"none", "clarify", "ok", "raise"}]

\* _extract_user_message: the messages hold a HumanMessage
HasUserMessage(messages) == \E k \in 1..Len(messages) : messages[k] = "human"

\* _error_response
ErrorResponse(state, error, error_code) ==
    [state EXCEPT !.error = error, !.error_code = error_code,
                  !.current_step = "intent"]

\* _clarification_response
ClarificationResponse(state) ==
    [state EXCEPT !.messages = Append(state.messages, "ai"),
                  !.current_step = "awaiting_clarification",
                  !.needs_clarification = TRUE,
                  !.error = None]

\* _mock_intent_response
MockIntentResponse(state) ==
    [state EXCEPT !.mission = "mission_mock",
                  !.current_step = "intent_complete",
                  !.token_used = 0,
                  !.needs_clarification = FALSE,
                  !.error = None]

\* a pass-through that parses again
IntentNode_reparse(state, w) ==
    [out |-> MockIntentResponse(state), llm_calls |-> 0, parses |-> 1, path |-> "mock"]

\* intent_node(state) in a run where the configuration and the LLM are as w
\* says. out: the returned state; llm_calls: calls of call_llm_and_parse;
\* parses: runs of a parser (LLM parse or mock parser); path: the way taken
IntentNode(state, w) ==
    LET r(out, llm_calls, parses, path) ==
            [out |-> out, llm_calls |-> llm_calls, parses |-> parses, path |-> path]
    IN IF state.mission # None
       THEN r([state EXCEPT !.current_step = "intent_complete"], 0, 0, "skip")
       ELSE IF state.messages = << >>
       THEN r(ErrorResponse(state, "No user message provided", "INVALID_ARGUMENT"),
              0, 0, "error")
       ELSE IF ~HasUserMessage(state.messages)
       THEN r(ErrorResponse(state, "No user message found", "INVALID_ARGUMENT"),
              0, 0, "error")
       ELSE IF ~w.api_key
       THEN r(MockIntentResponse(state), 0, 1, "mock")
       ELSE IF w.preprocess = "clarify"
       THEN r(ClarificationResponse(state), 1, 0, "clarify")
       ELSE IF w.parse = "raise"
       THEN r(ErrorResponse(state, "parse raised", "INTERNAL_ERROR"), 2, 1, "error")
       ELSE IF w.parse = "none"
       THEN r(MockIntentResponse(state), 2, 2, "fallback")
       ELSE IF w.parse = "clarify"
       THEN r(ClarificationResponse(state), 2, 1, "clarify")
       ELSE r([state EXCEPT !.mission = "mission_llm",
                            !.current_step = "intent_complete",
                            !.token_used = state.token_used + IntentTokenEstimate,
                            !.needs_clarification = FALSE,
                            !.error = None],
              2, 1, "llm")

\* the Conversation States the stage is run on: fresh, or left by an
\* earlier turn
IntentStartStates ==
    {[mission |-> m, messages |-> ms, token_used |-> t,
      candidates |-> l, plans |-> l, current_step |-> s,
      needs_clarification |-> FALSE, error |-> None, error_code |-> None] :
        m \in {None, "mission_prior"},
        ms \in {<< >>, <<"human">>, <<"ai">>, <<"human", "ai", "human">>},
        t \in {0, 800},
        l \in {<< >>, <<"item">>},
        s \in {"start", "plan_complete"}}

IntentInit ==
    /\ ManagerInit
    /\ SerialIdle
    /\ PayIdle
    /\ ret = NoRet
    /\ sstate \in IntentStartStates
    /\ given = None
    /\ world = None

\* the driver runs the Intent stage on the state it holds
intent_stage ==
    /\ Len(sstate.messages) < MaxMessages
    /\ \E w \in IntentWorlds :
        LET r == IntentNode(sstate, w)
        IN /\ sstate' = r.out
           /\ world' = [w |-> w, llm_calls |-> r.llm_calls, parses |-> r.parses,
                        path |-> r.path]
    /\ given' = sstate
    /\ ret' = [NoRet EXCEPT !.op = "intent_node"]
    /\ UNCHANGED <<storeVars, serialVars, payVars>>

IntentNext == intent_stage

IntentSpec == IntentInit /\ [][IntentNext]_vars

(***************************************************************************)
(* Guided chat: mission extraction (src/agents/src/guided_chat.py)         *)
(***************************************************************************)
\* get_llm(model_type, temperature): returns a model handle when the LLM
\* provider is configured, raises otherwise
GetLLM(configured) == IF configured THEN "handle" ELSE "raise"

\* what happens inside one extraction: call: llm.ainvoke answers or raises;
\* json: json.loads of the cleaned answer gives a dict, another JSON value,
\* or fails; translation: not needed, done, the translation call raises, or
\* its answer is no JSON; validation: MissionParseResult accepts the dict or
\* not
ExtractWorlds ==
    [call : {"ok", "raise"},
     json : {"dict", "not_dict", "unparsable"},
     translation : {"skip", "ok", "raise", "unparsable"},
     validation : {"ok", "fails"}]

\* None where a mission dict can stand
NoExtractedMission == [kind |-> "none", english |-> FALSE]

\* translate_mission_to_english(mission_data): the mission data it returns
\* (english: the *_en fields are filled), or the exception it raises
TranslateMission(configured, translation) ==
    IF translation = "skip" THEN [raised |-> FALSE, english |-> TRUE]
    ELSE IF GetLLM(configured) = "raise" THEN [raised |-> TRUE, english |-> FALSE]
    ELSE [raised |-> FALSE, english |-> (translation = "ok")]

\* extract_mission_from_conversation(session): value is the mission dict or
\* None it returns; raised: an exception leaves the function
ExtractMission(configured, w) ==
    IF GetLLM(configured) = "raise"
    THEN [raised |-> TRUE, value |-> NoExtractedMission]
    ELSE IF w.call = "raise" \/ w.json # "dict"
    THEN [raised |-> FALSE, value |-> NoExtractedMission]
    ELSE LET t == TranslateMission(configured, w.translation)
         IN IF t.raised THEN [raised |-> FALSE, value |-> NoExtractedMission]
            ELSE [raised |-> FALSE,
                  value |-> [kind |-> IF w.validation = "ok" THEN "validated"
                                      ELSE "raw",
                             english |-> t.english]]

\* a chat message of a session
ChatMessage(role, content) == [role |-> role, content |-> content]

\* the default of GuidedChatSession.max_turns
max_turns == 10

\* a session after n completed turns
SessionAfter(n, ready_to_search, extracted_mission) ==
    [messages |-> [i \in 1..(2 * n) |->
                      IF i % 2 = 1 THEN ChatMessage("user", <<"msg">>)
                      ELSE ChatMessage("assistant", <<"hi">>)],
     turn_count |-> n,
     max_turns |-> max_turns,
     ready_to_search |-> ready_to_search,
     extracted_mission |-> extracted_mission]

\* the sessions a call finds: new, near the turn limit, at the limit
GuidedSessions ==
    {SessionAfter(n, r, IF r THEN [kind |-> "validated", english |-> TRUE]
                     ELSE NoExtractedMission) :
        n \in {0, max_turns - 2, max_turns - 1, max_turns}, r \in BOOLEAN}

ExtractInit ==
    /\ ManagerInit
    /\ SerialIdle
    /\ PayIdle
    /\ ret = NoRet
    /\ sstate \in GuidedSessions
    /\ given = None
    /\ world \in [configured : BOOLEAN, w : ExtractWorlds]

\* a caller awaits extract_mission_from_conversation(session)
extract_mission ==
    /\ ret.op = "init"
    /\ LET r == ExtractMission(world.configured, world.w)
       IN ret' = [NoRet EXCEPT !.op = "extract_mission_from_conversation",
                               !.raised = r.raised, !.arg = r.value.kind]
    /\ given' = sstate
    /\ UNCHANGED <<storeVars, serialVars, payVars, sstate, world>>

ExtractNext == extract_mission

ExtractSpec == ExtractInit /\ [][ExtractNext]_vars

(***************************************************************************)
(* Guided chat: streamed turns on one session, run as tasks of one event   *)
(* loop that switch at await and yield points only.  Texts are sequences   *)
(* of tokens.                                                              *)
(***************************************************************************)
MaxChunks == 2          \* chunks one LLM stream delivers

\* the turns running against the session
ChatTasks == {"turn_a", "turn_b"}

\* "READY_TO_SEARCH: true"
ReadyMarker == <<"READY_TO_SEARCH:", " ", "true">>

\* chunk.content of the chunks the LLM streams: empty, or a piece of text
ChunkContents == {<< >>, <<"READY_TO_SEARCH:", " ">>, <<"true">>}

\* one LLM stream: its chunks, and whether it completes or raises at its end
LLMStreams ==
    [chunks : UNION {[1..k -> ChunkContents] : k \in 0..MaxChunks},
     ends : {"complete", "raise"}]

\* text.replace(marker, "")
RECURSIVE RemoveAll(_, _)
RemoveAll(text, marker) ==
    IF Len(text) < Len(marker) THEN text
    ELSE IF SubSeq(text, 1, Len(marker)) = marker
    THEN RemoveAll(SubSeq(text, Len(marker) + 1, Len(text)), marker)
    ELSE <<text[1]>> \o RemoveAll(Tail(text), marker)

\* text.strip()
RECURSIVE Strip(_)
Strip(text) ==
    IF text = << >> THEN text
    ELSE IF text[1] = " " THEN Strip(Tail(text))
    ELSE IF text[Len(text)] = " " THEN Strip(SubSeq(text, 1, Len(text) - 1))
    ELSE text

\* a turn that has not been started
NewTask ==
    [pc |-> "new", chunks |-> << >>, stream |-> << >>, ends |-> "complete",
     full_response |-> << >>, llm_calls |-> 0, began |-> "no",
     extracted |-> "no"]

\* a start of the turn that lets one turn too many through
BeginTurn_late(session, task, configured, stream) ==
    IF session.turn_count > session.max_turns
    THEN [session |-> session,
          task |-> [task EXCEPT !.pc = "done", !.began = "limit",
                                !.chunks = <<"error">>]]
    ELSE IF GetLLM(configured) = "raise"
    THEN [session |-> session, task |-> [task EXCEPT !.pc = "raised"]]
    ELSE [session |-> [session EXCEPT
                          !.messages = Append(@, ChatMessage("user", <<"msg">>)),
                          !.turn_count = @ + 1],
          task |-> [task EXCEPT !.pc = "streaming", !.began = "ok",
                                !.stream = stream.chunks, !.ends = stream.ends,
                                !.llm_calls = 1]]

\* a start of the turn that does not look at the turn limit
BeginTurn_nolimit(session, task, configured, stream) ==
    IF GetLLM(configured) = "raise"
    THEN [session |-> session, task |-> [task EXCEPT !.pc = "raised"]]
    ELSE [session |-> [session EXCEPT
                          !.messages = Append(@, ChatMessage("user", <<"msg">>)),
                          !.turn_count = @ + 1],
          task |-> [task EXCEPT !.pc = "streaming", !.began = "ok",
                                !.stream = stream.chunks, !.ends = stream.ends,
                                !.llm_calls = 1]]

\* stream_guided_chat up to its first await: the turn-limit check, the
\* model handle, the user message and the turn counter
BeginTurn(session, task, configured, stream) ==
    IF session.turn_count >= session.max_turns
    THEN [session |-> session,
          task |-> [task EXCEPT !.pc = "done", !.began = "limit",
                                !.chunks = <<"error">>]]
    ELSE IF GetLLM(configured) = "raise"
    THEN [session |-> session, task |-> [task EXCEPT !.pc = "raised"]]
    ELSE [session |-> [session EXCEPT
                          !.messages = Append(@, ChatMessage("user", <<"msg">>)),
                          !.turn_count = @ + 1],
          task |-> [task EXCEPT !.pc = "streaming", !.began = "ok",
                                !.stream = stream.chunks, !.ends = stream.ends,
                                !.llm_calls = 1]]

\* a turn whose done chunk comes before the mission chunk
FinishExtraction_donefirst(session, task, r) ==
    [session |-> [session EXCEPT !.extracted_mission = r.value],
     task |-> [task EXCEPT
                 !.pc = "done",
                 !.extracted = IF r.value # NoExtractedMission THEN "mission" ELSE "none",
                 !.chunks = @ \o <<"done">>
                              \o (IF r.value # NoExtractedMission THEN <<"mission">> ELSE << >>)]]

\* stream_guided_chat after the extraction returned r or raised
FinishExtraction(session, task, r) ==
    IF r.raised
    THEN [session |-> session,
          task |-> [task EXCEPT !.pc = "done", !.extracted = "raised",
                                !.chunks = Append(@, "error")]]
    ELSE [session |-> [session EXCEPT !.extracted_mission = r.value],
          task |-> [task EXCEPT
                      !.pc = "done",
                      !.extracted = IF r.value # NoExtractedMission THEN "mission" ELSE "none",
                      !.chunks = @ \o (IF r.value # NoExtractedMission THEN <<"mission">> ELSE << >>)
                                   \o <<"done">>]]

\* stream_guided_chat from one await of the stream to the next await
StreamStep(session, task) ==
    IF task.stream # << >>
    THEN LET content == Head(task.stream)
         IN [session |-> session,
             task |-> [task EXCEPT
                         !.stream = Tail(@),
                         !.full_response = @ \o content,
                         !.chunks = IF content # << >> THEN Append(@, "text")
                                    ELSE @]]
    ELSE IF task.ends = "raise"
    THEN [session |-> session,
          task |-> [task EXCEPT !.pc = "done", !.chunks = Append(@, "error")]]
    ELSE LET ready_to_search == Contains(ReadyMarker, task.full_response)
             display_response == Strip(RemoveAll(task.full_response, ReadyMarker))
             saved == [session EXCEPT
                          !.messages = Append(@, ChatMessage("assistant",
                                                             display_response))]
         IN IF ready_to_search
            THEN [session |-> [saved EXCEPT !.ready_to_search = TRUE],
                  task |-> [task EXCEPT !.pc = "extracting"]]
            ELSE [session |-> saved,
                  task |-> [task EXCEPT !.pc = "done",
                                        !.chunks = Append(@, "done")]]

GuidedInit ==
    /\ ManagerInit
    /\ SerialIdle
    /\ PayIdle
    /\ ret = NoRet
    /\ sstate \in GuidedSessions
    /\ given = None
    /\ world \in [configured : BOOLEAN, tasks : {[t \in ChatTasks |-> NewTask]}]

\* a request starts stream_guided_chat(session, message, images)
begin_turn(t) ==
    /\ world.tasks[t].pc = "new"
    /\ \E stream \in LLMStreams :
        LET r == BeginTurn(sstate, world.tasks[t], world.configured, stream)
        IN /\ sstate' = r.session
           /\ world' = [world EXCEPT !.tasks[t] = r.task]
    /\ ret' = [NoRet EXCEPT !.op = "begin_turn", !.arg = t]
    /\ UNCHANGED <<storeVars, serialVars, payVars, given>>

\* the event loop resumes the turn at `async for chunk in llm.astream(...)`
stream_step(t) ==
    /\ world.tasks[t].pc = "streaming"
    /\ LET r == StreamStep(sstate, world.tasks[t])
       IN /\ sstate' = r.session
          /\ world' = [world EXCEPT !.tasks[t] = r.task]
    /\ ret' = [NoRet EXCEPT !.op = "stream_step", !.arg = t]
    /\ UNCHANGED <<storeVars, serialVars, payVars, given>>

\* the event loop resumes the turn at
\* `await extract_mission_from_conversation(session)`
finish_extraction(t) ==
    /\ world.tasks[t].pc = "extracting"
    /\ \E w \in ExtractWorlds :
        LET r == FinishExtraction(sstate, world.tasks[t],
                                  ExtractMission(world.configured, w))
        IN /\ sstate' = r.session
           /\ world' = [world EXCEPT !.tasks[t] = r.task]
    /\ ret' = [NoRet EXCEPT !.op = "finish_extraction", !.arg = t]
    /\ UNCHANGED <<storeVars, serialVars, payVars, given>>

GuidedNext ==
    \E t \in ChatTasks : begin_turn(t) \/ stream_step(t) \/ finish_extraction(t)

GuidedSpec == GuidedInit /\ [][GuidedNext]_vars

(***************************************************************************)
(* Properties of the session layer                                         *)
(***************************************************************************)
Inactivity(s) == now - s.last_activity

\* C1: after any sequence of turns through process_message and the chat
\* handler, no session has used more tokens than its budget.
C1_TokenUsedWithinBudget ==
    \A sid \in DOMAIN sessions :
        sessions[sid].token_used <= sessions[sid].token_budget

\* C2: process_message refuses a turn exactly when 2 x word count + 500 is
\* greater than max(0, token_budget - token_used); a refused turn returns
\* TOKEN_BUDGET_EXCEEDED without success, does not run the graph and leaves
\* state, token_used and message_history as they were; otherwise the turn is
\* admitted.
C2_AdmissionGate ==
    [][\A sid \in SessionIds :
        (ret'.op = "process_message" /\ ret'.arg = sid /\ sid \in DOMAIN sessions) =>
            LET s == sessions[sid]
                estimate == 2 * WordCount(ret'.msg) + 500
                remaining == IF s.token_budget - s.token_used > 0
                             THEN s.token_budget - s.token_used ELSE 0
            IN IF estimate > remaining
               THEN /\ ~ret'.flag
                    /\ ret'.exc = "TOKEN_BUDGET_EXCEEDED"
                    /\ ~ret'.invoked
                    /\ ~ret'.admitted
                    /\ sessions'[sid].state = s.state
                    /\ sessions'[sid].token_used = s.token_used
                    /\ sessions'[sid].message_history = s.message_history
               ELSE /\ ret'.admitted
                    /\ ret'.exc # "TOKEN_BUDGET_EXCEEDED"]_vars

\* a turn was refused at the gate
C2_Witness ==
    /\ ret.op = "process_message"
    /\ ret.exc = "TOKEN_BUDGET_EXCEEDED"
    /\ ~ret.admitted
    /\ sessions[ret.arg].token_used > 0

\* C3: when an exception occurs while process_message handles an admitted
\* turn, the call returns an INTERNAL_ERROR envelope instead of raising and
\* state, token_used, message_history and last_activity are as before.
C3_ExceptionLeavesSessionUntouched ==
    [][\A sid \in SessionIds :
        (/\ ret'.op = "process_message" /\ ret'.arg = sid /\ sid \in DOMAIN sessions
         /\ ret'.admitted
         /\ (ret'.raised \/ ret'.exc # None)) =>
            /\ ~ret'.raised
            /\ ret'.exc = "INTERNAL_ERROR"
            /\ sessions'[sid].state = sessions[sid].state
            /\ sessions'[sid].token_used = sessions[sid].token_used
            /\ sessions'[sid].message_history = sessions[sid].message_history
            /\ sessions'[sid].last_activity = sessions[sid].last_activity]_vars

\* C4: get_session never returns an expired session (one found expired is
\* removed from the store and None is returned), and list_sessions never
\* lists an expired session.
C4_NoExpiredSessionReturned ==
    /\ (ret.op = "get_session" /\ ret.session # NoId) =>
            /\ ret.session = ret.arg
            /\ ret.session \in DOMAIN sessions
            /\ Inactivity(sessions[ret.session])
                    <= sessions[ret.session].timeout_minutes
    /\ (ret.op = "get_session" /\ ret.session = NoId) =>
            ret.arg \notin DOMAIN sessions
    /\ ret.op = "list_sessions" =>
            \A sid \in ret.list :
                /\ sid \in DOMAIN sessions
                /\ Inactivity(sessions[sid]) <= sessions[sid].timeout_minutes

\* get_session found the session under the id, expired, and evicted it
C4_Witness ==
    /\ ret.op = "get_session"
    /\ ret.flag
    /\ ret.session = NoId
    /\ ret.arg \notin DOMAIN sessions

\* C5: every run of the sweep removes exactly the sessions expired at that
\* moment, and while the loop started by start() is not stopped an expired
\* session that is not touched again is eventually gone from the store.
C5_SweepRemovesExpired ==
    /\ [][ret'.op = "sweep" =>
            /\ DOMAIN sessions' =
                 {sid \in DOMAIN sessions :
                    Inactivity(sessions[sid]) <= sessions[sid].timeout_minutes}
            /\ \A sid \in DOMAIN sessions' : sessions'[sid] = sessions[sid]]_vars
    /\ \A sid \in SessionIds :
         (/\ cleanup_task = "running"
          /\ sid \in DOMAIN sessions
          /\ Inactivity(sessions[sid]) > sessions[sid].timeout_minutes)
           ~> (\/ cleanup_task # "running"
               \/ sid \notin DOMAIN sessions
               \/ Inactivity(sessions[sid]) <= sessions[sid].timeout_minutes)

\* a sweep evicted an expired session and kept a live one
C5_Witness ==
    /\ ret.op = "sweep"
    /\ ret.flag
    /\ DOMAIN sessions # {}

\* C6: create_session without a token_budget, for an id not yet stored,
\* returns a newly stored session whose budget is the configured total
\* (50000), so that token_remaining > 0.
C6_DefaultBudgetIsConfiguredTotal ==
    [][\A sid \in SessionIds :
        (/\ ret'.op = "create_session" /\ ret'.arg = sid /\ ret'.flag
         /\ sid \notin DOMAIN sessions) =>
            /\ ~ret'.raised
            /\ ret'.session = sid
            /\ sid \in DOMAIN sessions'
            /\ sessions'[sid].token_budget = 50000
            /\ sessions'[sid].token_budget - sessions'[sid].token_used > 0]_vars

\* C7: Session.from_dict(s.to_dict()) has the same session_id, user_id,
\* token_budget, token_used, timeout_minutes, created_at, last_activity and
\* message_history as s.
C7_RoundTrip ==
    ret.op = "from_dict" =>
        /\ restored.session_id = subject.session_id
        /\ restored.user_id = subject.user_id
        /\ restored.token_budget = subject.token_budget
        /\ restored.token_used = subject.token_used
        /\ restored.timeout_minutes = subject.timeout_minutes
        /\ restored.created_at = subject.created_at
        /\ restored.last_activity = subject.last_activity
        /\ restored.message_history = subject.message_history

\* a session with used tokens, a message history and sub-second time stamps
\* went through to_dict and from_dict
C7_Witness ==
    /\ ret.op = "from_dict"
    /\ subject.token_used > 0
    /\ subject.message_history # << >>
    /\ subject.last_activity.microsecond # 0
    /\ restored.last_activity = subject.last_activity

(***************************************************************************)
(* Properties of the payment flow                                          *)
(***************************************************************************)
\* the confirmation items with no truthy entry under their lower-cased,
\* space-to-underscore key
Unacknowledged(state) ==
    LET key(item) == [i \in 1..Len(item) |->
                        CASE item[i] = " " -> "_"
                          [] item[i] = "R" -> "r"
                          [] item[i] = "P" -> "p"
                          [] OTHER -> item[i]]
        open(item) == key(item) \notin state.user_confirmation.keys
    IN SelectSeq(state.confirmation_items, open)

NoIntentCreated ==
    /\ intents' = intents
    /\ pstate'.payment_intent_id = pstate.payment_intent_id
    /\ pstate'.payment_ready = pstate.payment_ready

\* C8: payment_node on a draft order that is found and neither expired nor
\* paid, with at least one confirmation item unacknowledged, returns
\* 'awaiting_confirmation' with needs_user_input, error None and
\* missing_confirmations equal to exactly those items, and creates no
\* payment intent.
C8_MissingConfirmationPauses ==
    [][(/\ ret'.op = "payment_node"
        /\ ret'.arg = "pending"
        /\ Unacknowledged(pstate) # << >>) =>
            /\ pstate'.current_step = "awaiting_confirmation"
            /\ pstate'.needs_user_input
            /\ pstate'.error = None
            /\ pstate'.missing_confirmations = Unacknowledged(pstate)
            /\ NoIntentCreated]_vars

\* C9: payment_node answers 'expired' with ORDER_EXPIRED and 'paid' with
\* ALREADY_PAID, whatever the confirmations, without moving to
\* 'payment_ready' or 'awaiting_confirmation' and without creating a
\* payment intent; without a draft_order_id it answers INVALID_ARGUMENT and
\* does not call the gateway.
C9_TerminalDraftOrders ==
    [][ret'.op = "payment_node" =>
        /\ ret'.arg = "expired" =>
              /\ pstate'.error_code = "ORDER_EXPIRED"
              /\ pstate'.current_step \notin {"payment_ready", "awaiting_confirmation"}
              /\ NoIntentCreated
        /\ ret'.arg = "paid" =>
              /\ pstate'.error_code = "ALREADY_PAID"
              /\ pstate'.current_step \notin {"payment_ready", "awaiting_confirmation"}
              /\ NoIntentCreated
        /\ pstate.draft_order_id = None =>
              /\ pstate'.error_code = "INVALID_ARGUMENT"
              /\ ~ret'.invoked
              /\ NoIntentCreated]_vars

\* an already paid draft order was refused although every item was confirmed
C9_Witness ==
    /\ ret.op = "payment_node"
    /\ ret.arg = "paid"
    /\ pstate.error_code = "ALREADY_PAID"
    /\ pstate.confirmation_items # << >>
    /\ Unacknowledged(pstate) = << >>

\* C10: confirm_payment_node answers INVALID_ARGUMENT, processes no payment
\* and does not reach 'payment_complete' when payment_intent_id or
\* selected_payment_method is missing; it returns 'payment_complete' with an
\* order id only when both are there and the processing succeeded.
C10_ConfirmNeedsIntentAndMethod ==
    [][ret'.op = "confirm_payment_node" =>
        /\ (\/ pstate.payment_intent_id = NoIntent
            \/ pstate.selected_payment_method \in {None, ""}) =>
              /\ pstate'.error_code = "INVALID_ARGUMENT"
              /\ ~ret'.invoked
              /\ pstate'.current_step # "payment_complete"
              /\ pstate'.order_id = pstate.order_id
        /\ pstate'.current_step = "payment_complete" =>
              /\ pstate.payment_intent_id # NoIntent
              /\ pstate.selected_payment_method \notin {None, ""}
              /\ ret'.invoked
              /\ ret'.flag
              /\ pstate'.order_id # NoOrder]_vars

\* a payment was confirmed: intent and method present, order created
C10_Witness ==
    /\ ret.op = "confirm_payment_node"
    /\ pstate.current_step = "payment_complete"
    /\ pstate.order_id # NoOrder
    /\ pstate.payment_intent_id # NoIntent
    /\ pstate.selected_payment_method = "card"

\* C13: every tool-wrapper invocation a stage makes, whether it succeeds or
\* fails and whatever the stage returns, adds one Tool Call Record to the
\* tool-call list of the returned state, and no record is removed; stated
\* here for the get_draft_order_summary call of payment_node.
C13_EveryInvocationRecorded ==
    [][(ret'.op = "payment_node" /\ ret'.invoked) =>
          LET before == pstate.tool_calls.items
              after == pstate'.tool_calls.items
          IN /\ pstate'.tool_calls.kind = "list"
             /\ Len(after) = Len(before) + 1
             /\ SubSeq(after, 1, Len(before)) = before
             /\ after[Len(after)] = "checkout.get_draft_order_summary"]_vars

(***************************************************************************)
(* Properties of the Verifier stage                                        *)
(***************************************************************************)
\* how many results of a list carry the offer id
CountOffer(list, offer_id) ==
    Cardinality({k \in 1..Len(list) : list[k].offer_id = offer_id})

\* the tools' answers reject the i-th candidate: the quote succeeded with a
\* total_price above a set budget, or compliance succeeded with allowed=false
AnswersReject(i) ==
    LET a == world[((i - 1) % Len(world)) + 1]
    IN \/ /\ a.pricing.kind = "ok"
          /\ sstate.mission.budget.kind = "set"
          /\ a.pricing.total_price > sstate.mission.budget.amount
       \/ /\ a.compliance.kind = "ok"
          /\ ~a.compliance.allowed

VerifierRan ==
    /\ ret.op = "verifier_node"
    /\ sstate.mission.present
    /\ sstate.candidates # << >>

\* C11: verifier_node places each of the first 15 candidates in exactly one
\* of verified_candidates and rejected_candidates, and a candidate is
\* rejected (passed = false) exactly when its quote succeeded above a set
\* budget or its compliance check succeeded with allowed = false; nothing
\* else rejects a candidate.
C11_SplitByHardChecks ==
    VerifierRan =>
        LET n == IF Len(sstate.candidates) < 15 THEN Len(sstate.candidates) ELSE 15
            ver == sstate.verified_candidates
            rej == sstate.rejected_candidates
        IN /\ sstate.current_step = "verifier_complete"
           /\ Len(ver) + Len(rej) = n
           /\ \A k \in 1..Len(ver) : ver[k].passed
           /\ \A k \in 1..Len(rej) : ~rej[k].passed
           /\ \A i \in 1..n :
                LET offer_id == sstate.candidates[i].offer_id
                IN IF AnswersReject(i)
                   THEN CountOffer(rej, offer_id) = 1 /\ CountOffer(ver, offer_id) = 0
                   ELSE CountOffer(rej, offer_id) = 0 /\ CountOffer(ver, offer_id) = 1

\* more than 15 candidates were handed over; one within budget was rejected
\* by compliance, one survived a raised quote and a missed deadline
C11_Witness ==
    /\ VerifierRan
    /\ Len(sstate.candidates) > 15
    /\ sstate.mission.arrival_days_max # NoDays
    /\ \E k \in 1..Len(sstate.rejected_candidates) :
          /\ sstate.rejected_candidates[k].pricing.total_price # NoPrice
          /\ sstate.rejected_candidates[k].pricing.total_price < 50
    /\ \E k \in 1..Len(sstate.verified_candidates) :
          /\ ~sstate.verified_candidates[k].pricing.passed
          /\ sstate.verified_candidates[k].warnings # << >>

\* the tool names of the records a list holds
ToolNames(items) == [k \in 1..Len(items) |-> items[k].tool_name]

\* C12: verifier_node appends exactly three Tool Call Records per checked
\* candidate, in the order pricing.get_realtime_quote, compliance.check_item,
\* shipping.quote_options, candidate by candidate, whatever each call does;
\* the earlier records stay as a prefix and the list grows by
\* 3 x min(number of candidates, 15).
C12_ThreeRecordsPerCandidate ==
    [][(/\ ret'.op = "verifier_node"
        /\ sstate.mission.present
        /\ sstate.candidates # << >>) =>
          LET n == IF Len(sstate.candidates) < 15 THEN Len(sstate.candidates) ELSE 15
              before == sstate.tool_calls.items
              after == sstate'.tool_calls.items
          IN /\ sstate'.tool_calls.kind = "list"
             /\ Len(after) = Len(before) + 3 * n
             /\ SubSeq(after, 1, Len(before)) = before
             /\ \A i \in 1..n :
                  /\ after[Len(before) + 3 * (i - 1) + 1].tool_name = "pricing.get_realtime_quote"
                  /\ after[Len(before) + 3 * (i - 1) + 2].tool_name = "compliance.check_item"
                  /\ after[Len(before) + 3 * (i - 1) + 3].tool_name = "shipping.quote_options"]_vars

\* 16 candidates on top of an earlier record, with a raised quote and a
\* failed shipping call among the answers: 1 + 45 records
C12_Witness ==
    /\ VerifierRan
    /\ Len(sstate.candidates) > 15
    /\ Len(sstate.tool_calls.items) = 46
    /\ \E k \in 1..Len(world) :
          world[k].pricing.kind = "raise" /\ world[k].shipping.kind = "not_ok"

(***************************************************************************)
(* Properties of the Plan stage                                            *)
(***************************************************************************)
\* plan_node was run on the state `given`, which held a Mission
PlanRan == ret.op = "plan_node"

\* the verified candidates handed to plan_node
Handed == given.verified_candidates

DistinctOffers(list) ==
    \A i, j \in 1..Len(list) : i # j => list[i].offer_id # list[j].offer_id

\* the candidate a plan was built from has the least total price of the list
BuiltFromCheapest(plan, list) ==
    \E i \in 1..Len(list) :
        /\ list[i].offer_id = plan.offer_id
        /\ \A j \in 1..Len(list) :
              list[j].total_price # -1 =>
                  (list[i].total_price # -1
                   /\ list[i].total_price <= list[j].total_price)

\* C14: given at least 3 verified candidates with pairwise different offer
\* ids, the first three plans are 'Budget Saver' (cheapest), 'Express
\* Delivery' (fastest) and 'Best Value' (best_value) in that order, the first
\* built from a candidate of minimal total price, and the three reference
\* three different offer ids.
C14_ThreeNamedPlans ==
    (PlanRan /\ Len(Handed) >= 3 /\ DistinctOffers(Handed)) =>
        LET plans == sstate.plans
        IN /\ Len(plans) >= 3
           /\ plans[1].plan_name = "Budget Saver" /\ plans[1].plan_type = "cheapest"
           /\ plans[2].plan_name = "Express Delivery" /\ plans[2].plan_type = "fastest"
           /\ plans[3].plan_name = "Best Value" /\ plans[3].plan_type = "best_value"
           /\ BuiltFromCheapest(plans[1], Handed)
           /\ Cardinality({plans[k].offer_id : k \in 1..3}) = 3

\* three plans from a list in which the cheapest price occurs twice and one
\* candidate has no price at all
C14_Witness ==
    /\ PlanRan /\ Len(Handed) >= 3 /\ DistinctOffers(Handed)
    /\ Len(sstate.plans) >= 3
    /\ \E i, j \in 1..Len(Handed) :
          /\ i # j
          /\ Handed[i].total_price = Handed[j].total_price
          /\ Handed[i].offer_id = sstate.plans[1].offer_id
    /\ \E i \in 1..Len(Handed) : Handed[i].total_price = -1

\* C15: given exactly one verified candidate, plan_node returns exactly one
\* plan, named 'Recommended' with plan type best_value, built from it.
C15_SingleCandidateRecommended ==
    (PlanRan /\ Len(Handed) = 1) =>
        /\ Len(sstate.plans) = 1
        /\ sstate.plans[1].plan_name = "Recommended"
        /\ sstate.plans[1].plan_type = "best_value"
        /\ sstate.plans[1].offer_id = Handed[1].offer_id

\* the candidate a plan was built from
SourceOf(plan) ==
    CHOOSE c \in {Handed[i] : i \in 1..Len(Handed)} : c = plan.source

\* the distance of two amounts
Dist(a, b) == IF a >= b THEN a - b ELSE b - a

\* C16: every plan has tax_estimate = total_price x tax_rate, the rate being
\* 0.08 for destination 'US' and 0.15 otherwise, and total_landed_cost =
\* total_price + shipping_cost + tax_estimate, each rounded to 2 decimals
\* (29.99 x 1 with shipping 9.99 to the US: tax 2.40, landed cost 42.38);
\* the delivery window is [fastest_days, fastest_days + 7].
C16_TaxAndLandedCost ==
    PlanRan =>
        \A k \in 1..Len(sstate.plans) :
            LET plan == sstate.plans[k]
                c == SourceOf(plan)
                rate == IF given.mission.destination_country = "US" THEN 8 ELSE 15
                total_price == IF c.total_price # -1 THEN c.total_price
                               ELSE IF c.unit_price # -1
                               THEN c.unit_price * given.mission.quantity ELSE 0
                shipping == plan.total.shipping_cost
            IN /\ Dist(100 * plan.total.tax_estimate, total_price * rate) <= 50
               /\ Dist(100 * plan.total.total_landed_cost,
                       100 * total_price + 100 * shipping + total_price * rate) <= 50
               /\ plan.total.subtotal = total_price
               /\ plan.delivery.max_days = plan.delivery.min_days + 7
               /\ c.fastest_days # -1 => plan.delivery.min_days = c.fastest_days
               /\ (total_price = 2999 /\ shipping = 999 /\ rate = 8) =>
                      (plan.total.tax_estimate = 240
                       /\ plan.total.total_landed_cost = 4238)

\* the 29.99 / 9.99 / US plan exists with tax 2.40 and landed cost 42.38
C16_Witness ==
    /\ PlanRan
    /\ given.mission.destination_country = "US"
    /\ \E k \in 1..Len(sstate.plans) :
          /\ sstate.plans[k].total.subtotal = 2999
          /\ sstate.plans[k].total.shipping_cost = 999
          /\ sstate.plans[k].total.tax_estimate = 240
          /\ sstate.plans[k].total.total_landed_cost = 4238
          /\ sstate.plans[k].delivery = [min_days |-> 5, max_days |-> 12]

\* C17 as stated: confidence is 0.6 when the candidate's warnings list is
\* non-empty and 0.8 when it is empty.
C17_ConfidenceFromWarnings ==
    PlanRan =>
        \A k \in 1..Len(sstate.plans) :
            sstate.plans[k].confidence =
                IF SourceOf(sstate.plans[k]).warnings # << >> THEN "0.6" ELSE "0.8"

\* C17 amended: confidence is 0.6 when the candidate has a warning or its
\* compliance check names a required document (the plan's risks list is
\* non-empty), and 0.8 when it has neither; no other value occurs.
C17_ConfidenceFromRisks ==
    PlanRan =>
        \A k \in 1..Len(sstate.plans) :
            LET c == SourceOf(sstate.plans[k])
            IN /\ sstate.plans[k].confidence \in {"0.6", "0.8"}
               /\ sstate.plans[k].confidence = "0.6" <=>
                      (c.warnings # << >> \/ c.required_docs # << >>)
               /\ sstate.plans[k].confidence = "0.6" <=> sstate.plans[k].risks # << >>

\* a plan of confidence 0.6 from a candidate without warnings, next to one
\* of confidence 0.8
C17_Witness ==
    /\ PlanRan
    /\ \E k \in 1..Len(sstate.plans) :
          /\ sstate.plans[k].confidence = "0.6"
          /\ SourceOf(sstate.plans[k]).warnings = << >>
    /\ \E k \in 1..Len(sstate.plans) : sstate.plans[k].confidence = "0.8"

Assessed == ret.op = "_assess_risk_level"

\* a detected risk tag has this severity in the definitions
TagOfSeverity(sev) ==
    \E k \in 1..Len(sstate.detected_risk_tags) :
        /\ sstate.detected_risk_tags[k] \in DOMAIN world
        /\ world[sstate.detected_risk_tags[k]].severity = sev

DefsAvailable == DOMAIN world # {}

\* the level the counts of issues, warnings and required docs give
ByVolume ==
    /\ (Len(sstate.issues) > 0 \/ Len(sstate.required_docs) > 2)
           => sstate.risk_level = "high"
    /\ (Len(sstate.issues) = 0 /\ Len(sstate.required_docs) \in 1..2)
           => sstate.risk_level = "medium"
    /\ (Len(sstate.issues) = 0 /\ Len(sstate.required_docs) = 0
            /\ Len(sstate.warnings) > 1)
           => sstate.risk_level = "medium"
    /\ (Len(sstate.issues) = 0 /\ Len(sstate.required_docs) = 0
            /\ Len(sstate.warnings) = 1)
           => sstate.risk_level = "low"
    /\ (Len(sstate.issues) = 0 /\ Len(sstate.required_docs) = 0
            /\ Len(sstate.warnings) = 0)
           => sstate.risk_level = "minimal"

\* the rules on tag severities, when definitions are available
BySeverity ==
    /\ TagOfSeverity("critical") => sstate.risk_level = "high"
    /\ (~TagOfSeverity("critical") /\ TagOfSeverity("warning")
            /\ Len(sstate.detected_risk_tags) > 1)
           => sstate.risk_level = "high"
    /\ (~TagOfSeverity("critical") /\ TagOfSeverity("warning")
            /\ Len(sstate.detected_risk_tags) = 1)
           => sstate.risk_level = "medium"

\* a detected tag is one of the four the fallback treats as high risk
CarriesHardCodedTag ==
    \E k \in 1..Len(sstate.detected_risk_tags) :
        sstate.detected_risk_tags[k] \in {"battery_included", "liquid", "food", "medical"}

\* C19 (as stated): for every input, allowed=false gives "blocked"; else
\* with severity definitions available a critical tag gives "high", a
\* warning tag among more than one tag gives "high", a single warning tag
\* gives "medium"; in every other case the counts of issues, warnings and
\* required docs alone decide the level.
C19_RiskPrecedence ==
    Assessed =>
        /\ ~sstate.allowed => sstate.risk_level = "blocked"
        /\ (sstate.allowed /\ DefsAvailable) => BySeverity
        /\ (sstate.allowed
              /\ ~(DefsAvailable /\ (TagOfSeverity("critical") \/ TagOfSeverity("warning"))))
             => ByVolume

\* C19 (amended): as above, and when no severity definitions are available
\* a tag of battery_included / liquid / food / medical gives "high" before
\* the counts are looked at.
C19_RiskPrecedenceWithFallback ==
    Assessed =>
        /\ ~sstate.allowed => sstate.risk_level = "blocked"
        /\ (sstate.allowed /\ DefsAvailable) => BySeverity
        /\ (sstate.allowed /\ ~DefsAvailable /\ CarriesHardCodedTag)
             => sstate.risk_level = "high"
        /\ (sstate.allowed
              /\ ~(DefsAvailable /\ (TagOfSeverity("critical") \/ TagOfSeverity("warning")))
              /\ ~(~DefsAvailable /\ CarriesHardCodedTag))
             => ByVolume

\* an allowed item carrying only "liquid", assessed without definitions and
\* with nothing else reported, is rated "high"
C19_Witness ==
    /\ Assessed
    /\ sstate.allowed
    /\ ~DefsAvailable
    /\ sstate.detected_risk_tags = <<"liquid">>
    /\ sstate.issues = << >> /\ sstate.warnings = << >> /\ sstate.required_docs = << >>
    /\ sstate.risk_level = "high"

(***************************************************************************)
(* Properties of the Candidate stage                                       *)
(***************************************************************************)
\* candidate_node ran on a state with a Mission and the search answered
CandidateRan ==
    /\ ret.op = "candidate_node"
    /\ given.mission.present
    /\ world.search.kind # "raise"

\* the candidates hydrated in this run
Hydrated == Hydrate(world.search, world.cards, 1)

\* the relevance filter ran and judged every hydrated candidate irrelevant
AllFiltered ==
    /\ Hydrated # << >>
    /\ (given.mission.primary_product_type # << >>
          \/ given.mission.primary_product_type_en # << >>)
    /\ \A k \in 1..Len(Hydrated) :
          ~validate_candidate_relevance(Hydrated[k],
               given.mission.primary_product_type,
               given.mission.primary_product_type_en, world.llm).is_relevant

\* C20: candidate_node classifies its outcome: a non-ok search response
\* gives UPSTREAM_ERROR and step "candidate"; an ok search with no offer id
\* gives no candidate, NOT_FOUND and step "candidate_complete"; hydrated
\* candidates all removed by the relevance filter give no candidate,
\* NO_EXACT_MATCH and step "candidate_complete"; otherwise at most 20
\* candidates are returned with error None and step "candidate_complete".
C20_OutcomeClasses ==
    CandidateRan =>
        /\ world.search.kind = "not_ok" =>
              /\ sstate.error_code = "UPSTREAM_ERROR"
              /\ sstate.current_step = "candidate"
        /\ (world.search.kind = "ok" /\ world.search.offer_ids = << >>) =>
              /\ sstate.candidates = << >>
              /\ sstate.error_code = "NOT_FOUND"
              /\ sstate.current_step = "candidate_complete"
        /\ (world.search.kind = "ok" /\ world.search.offer_ids # << >> /\ AllFiltered) =>
              /\ sstate.candidates = << >>
              /\ sstate.error_code = "NO_EXACT_MATCH"
              /\ sstate.current_step = "candidate_complete"
        /\ (world.search.kind = "ok" /\ world.search.offer_ids # << >> /\ ~AllFiltered) =>
              /\ Len(sstate.candidates) <= 20
              /\ sstate.error = None
              /\ sstate.current_step = "candidate_complete"

(***************************************************************************)
(* Properties of one relevance validation                                  *)
(***************************************************************************)
Validated == ret.op = "_validate_candidate_relevance"

\* the title of the validated candidate, lower-cased
ValidatedTitle ==
    IF sstate.candidate.titles # << >> THEN lower(sstate.candidate.titles[1])
    ELSE << >>

\* the text occurs in the title or in the category
InTitleOrCategory(term) ==
    Contains(term, ValidatedTitle) \/ Contains(term, lower(sstate.candidate.category))

\* the title or the category names the product type, in either language,
\* or one of the variations curated for the English type
NamesProductType ==
    \/ sstate.primary_type # << >> /\ InTitleOrCategory(lower(sstate.primary_type))
    \/ /\ sstate.primary_type_en # << >>
       /\ \/ InTitleOrCategory(lower(sstate.primary_type_en))
          \/ \E k \in 1..Len(CommonVariations(lower(sstate.primary_type_en))) :
                InTitleOrCategory(CommonVariations(lower(sstate.primary_type_en))[k])

\* the title holds a term the rejection table lists for the product type
NamesOtherProduct ==
    LET key == IF sstate.primary_type_en # << >> THEN lower(sstate.primary_type_en)
               ELSE lower(sstate.primary_type)
    IN \E k \in 1..Len(RejectionTerms(key)) :
           Contains(RejectionTerms(key)[k], ValidatedTitle)

\* C21: with a product type given, _validate_candidate_relevance accepts
\* without an LLM call a candidate whose title or category contains the
\* type or a curated synonym; otherwise it rejects without an LLM call a
\* candidate whose title contains a term of the rejection table; in the
\* remaining cases it calls the LLM once and returns its verdict, accepting
\* when the LLM gives no result or raises.
C21_RelevanceDecisionOrder ==
    (Validated /\ (sstate.primary_type # << >> \/ sstate.primary_type_en # << >>)) =>
        /\ NamesProductType =>
              sstate.verdict.is_relevant /\ sstate.verdict.llm_calls = 0
        /\ (~NamesProductType /\ NamesOtherProduct) =>
              ~sstate.verdict.is_relevant /\ sstate.verdict.llm_calls = 0
        /\ (~NamesProductType /\ ~NamesOtherProduct) =>
              /\ sstate.verdict.llm_calls = 1
              /\ sstate.verdict.is_relevant = (world # "irrelevant")

\* for the type "charger", a charger in a case is accepted by its title
\* although "case" is in the rejection table, and no LLM call is made
C21_Witness ==
    /\ Validated
    /\ sstate.primary_type_en = <<"c", "h", "a", "r", "g", "e", "r">>
    /\ ValidatedTitle = <<"c", "h", "a", "r", "g", "e", "r", " ", "c", "a", "s", "e">>
    /\ world = "irrelevant"
    /\ sstate.verdict.is_relevant
    /\ sstate.verdict.llm_calls = 0

(***************************************************************************)
(* Properties of the Intent stage                                          *)
(***************************************************************************)
IntentRan == ret.op = "intent_node"

\* C22: on a state that already holds a Mission, intent_node returns the
\* state with the same Mission and current_step "intent_complete", makes no
\* LLM call and no parse, leaves every other field unchanged, and a second
\* application returns what the first returned.
C22_MissionPassThrough ==
    (IntentRan /\ given.mission # None) =>
        /\ sstate = [given EXCEPT !.current_step = "intent_complete"]
        /\ sstate.mission = given.mission
        /\ world.llm_calls = 0
        /\ world.parses = 0
        /\ \A w \in IntentWorlds : IntentNode(sstate, w).out = sstate

\* a state with a Mission and another step went through the stage
C22_Witness ==
    /\ IntentRan
    /\ given.mission = "mission_prior"
    /\ given.current_step = "plan_complete"
    /\ given.token_used = 800
    /\ given.plans # << >>
    /\ sstate.current_step = "intent_complete"

\* C23: whenever intent_node turns a state without a Mission into one with
\* a Mission (current_step "intent_complete"), the returned token_used is
\* the input token_used plus 500, on the LLM path, the mock parser path and
\* the mock fallback path.
C23_TokenEstimateAdded ==
    (IntentRan /\ given.mission = None /\ sstate.mission # None
        /\ sstate.current_step = "intent_complete") =>
        sstate.token_used = given.token_used + 500

(***************************************************************************)
(* Properties of guided chat                                               *)
(***************************************************************************)
\* C26: extract_mission_from_conversation never raises to its caller: when
\* the LLM handle cannot be created, the call fails, the answer is no JSON,
\* validation fails or translation fails, it returns a mission dict or None.
C26_ExtractionNeverRaises ==
    ret.op = "extract_mission_from_conversation" => ~ret.raised

\* C24: stream_guided_chat on a session whose turn_count has reached
\* max_turns yields exactly one chunk, of type "error", makes no LLM call,
\* and leaves messages, turn_count, ready_to_search and extracted_mission of
\* the session unchanged.
C24_TurnLimitError ==
    [][\A t \in ChatTasks :
          (ret'.op = "begin_turn" /\ ret'.arg = t
              /\ sstate.turn_count >= sstate.max_turns) =>
             /\ world'.tasks[t].chunks = <<"error">>
             /\ world'.tasks[t].pc = "done"
             /\ world'.tasks[t].llm_calls = 0
             /\ sstate'.messages = sstate.messages
             /\ sstate'.turn_count = sstate.turn_count
             /\ sstate'.ready_to_search = sstate.ready_to_search
             /\ sstate'.extracted_mission = sstate.extracted_mission]_vars

\* a turn was refused at the limit while the session held all its messages
C24_Witness ==
    \E t \in ChatTasks :
        /\ world.tasks[t].began = "limit"
        /\ world.tasks[t].chunks = <<"error">>
        /\ sstate.turn_count = sstate.max_turns
        /\ Len(sstate.messages) = 2 * sstate.max_turns

\* the chunks are text chunks followed by the given ones
TextsThen(chunks, last) ==
    \E k \in 0..Len(chunks) : chunks = [i \in 1..k |-> "text"] \o last

\* C25: a turn below the limit whose LLM stream completes yields zero or
\* more "text" chunks, then at most one "mission" chunk, then exactly one
\* "done" chunk, which is last; the "mission" chunk is there exactly when
\* the reply held the marker and the extraction returned a mission; with
\* the marker and a failed extraction the session ends the turn with
\* ready_to_search true and extracted_mission None.
C25_ChunkOrder ==
    [][\A t \in ChatTasks :
          (world.tasks[t].pc # "done" /\ world'.tasks[t].pc = "done"
              /\ world'.tasks[t].began = "ok"
              /\ world'.tasks[t].ends = "complete") =>
             LET task == world'.tasks[t]
                 marker == Contains(ReadyMarker, task.full_response)
                 mission == task.extracted = "mission"
             IN /\ mission => marker
                /\ (marker /\ task.extracted # "none") => mission
                /\ IF mission THEN TextsThen(task.chunks, <<"mission", "done">>)
                   ELSE TextsThen(task.chunks, <<"done">>)
                /\ (marker /\ ~mission) =>
                      /\ sstate'.ready_to_search
                      /\ sstate'.extracted_mission = NoExtractedMission]_vars

\* the marker came in two chunks and the extraction returned a mission
C25_Witness ==
    \E t \in ChatTasks :
        /\ world.tasks[t].pc = "done"
        /\ world.tasks[t].chunks = <<"text", "text", "mission", "done">>
        /\ world.tasks[t].full_response = ReadyMarker

\* the user messages stored in the session
UserMessages ==
    {i \in 1..Len(sstate.messages) : sstate.messages[i].role = "user"}

\* C30: under any interleaving of concurrent turns on one session,
\* turn_count never exceeds max_turns and the number of user messages
\* stored in the session equals turn_count.
C30_TurnCountBounded ==
    /\ sstate.turn_count <= sstate.max_turns
    /\ Cardinality(UserMessages) = sstate.turn_count

\* one turn took the last place and is streaming while the other was refused
C30_Witness ==
    \E t, u \in ChatTasks :
        /\ world.tasks[t].pc = "streaming"
        /\ world.tasks[u].began = "limit"
        /\ sstate.turn_count = sstate.max_turns
        /\ Cardinality(UserMessages) = sstate.max_turns

(***************************************************************************)
(* Properties across the agent stages                                      *)
(***************************************************************************)
\* C27: no agent stage modifies the state value it receives: after the call
\* every field of the input state, the contents of its tool-call list
\* included, equals its value before the call.
C27_InputStateUntouched ==
    [][ret'.op \in {"payment_node", "confirm_payment_node"} =>
          handed' = pstate]_vars

\* C28: in a payment flow that starts without a payment_intent_id and in
\* which only payment_node, confirm_payment_node and the user's
\* confirmations and payment method change the state, current_step
\* "payment_complete" is reached only after an earlier payment_node call
\* returned "payment_ready" for the same draft order, having seen the draft
\* order neither expired nor paid and every confirmation item acknowledged.
C28_CompleteOnlyAfterReady ==
    /\ [](pstate.current_step = "payment_complete" =>
             /\ intents >= 1
             /\ pstate.payment_intent_id \in 1..intents
             /\ pstate.payment_ready.ready
             /\ pstate.payment_ready.payment_intent = pstate.payment_intent_id)
    /\ [][/\ pstate'.draft_order_id = pstate.draft_order_id
          /\ intents' # intents =>
                /\ ret'.op = "payment_node"
                /\ ret'.arg = "pending"
                /\ intents' = intents + 1
                /\ pstate'.current_step = "payment_ready"
                /\ pstate'.payment_intent_id = intents'
                /\ MissingConfirmations(pstate.confirmation_items,
                                        pstate.user_confirmation) = << >>]_vars

\* a payment completed on an order with confirmation items
C28_Witness ==
    /\ pstate.current_step = "payment_complete"
    /\ pstate.confirmation_items # << >>
    /\ pstate.order_id # NoOrder
    /\ intents >= 1

\* C29: in every state returned by an agent stage, over any sequence of
\* stage calls on a state that starts with error None and error_code None,
\* error_code is set if and only if error is set.
C29_ErrorCodeIffError ==
    ret.op \in {"payment_node", "confirm_payment_node"} =>
        (pstate.error_code # None <=> pstate.error # None)

====
